---- MODULE Spec2Model ----
(***************************************************************************)
(* Model of the ImageGeneration application: the style applicator          *)
(* (core/styles.py), the parameter normalizer (core/generation.py,         *)
(* utils/image_utils.py, utils/system_utils.py), the request wrappers      *)
(* (ui/app.py), the remote client (api/huggingface.py), persistence        *)
(* (core/history.py) and start-up (main.py, config.py).                    *)
(*                                                                         *)
(* Python strings are modelled as sequences of one-character strings, so   *)
(* that strip(), concatenation, replace() and lower() are computed the way *)
(* Python computes them.  Floats are fixed-point integers in units of      *)
(* 1/Scale.                                                                *)
(***************************************************************************)
EXTENDS Integers, Sequences, FiniteSets, TLC

VARIABLES
  pc,          \* where the process is: "boot", "serving" or "exited"
  exit_status, \* the status sys.exit was called with, None while running
  pipelines,   \* the pipelines dict main() hands to the UI
  outdir,      \* OUTPUT_DIR: file name -> [mtime, content]
  now,         \* the wall clock, in seconds
  requests,    \* number of requests the UI has handled
  last,        \* the last request: its inputs, its result and the calls it made
  call,        \* a pure function applied on its own: its name and arguments
  ret          \* the value that application returned

vars == <<pc, exit_status, pipelines, outdir, now, requests, last, call, ret>>

----------------------------------------------------------------------------
(* Bounds of the model *)

\* longest prompt drawn for the style applicator
MaxLen == 3

\* longest seed string drawn for fix_seed
MaxSeedLen == 3

\* how far beyond the configured limits the numeric inputs are swept
Margin == 16

\* floats are fixed-point numbers in units of 1/Scale
Scale == 20

\* a value outside every configured range
FarOut == 5000

\* a seed of the size generate_random_seed() draws
LargeSeed == 1000000000

\* the clock stops after MaxTime seconds
MaxTime == 1

\* requests handled by the UI in one run
MaxRequests == 1

\* calls of the history functions in one run
MaxOps == 3

----------------------------------------------------------------------------
(* Python string primitives *)

\* characters str.strip() removes (a subset of Python's whitespace)
Whitespace == {" ", "\t", "\n"}

IsSpace(c) == c \in Whitespace

\* str.lstrip()
RECURSIVE LStrip(_)
LStrip(s) == IF s # <<>> /\ IsSpace(s[1]) THEN LStrip(Tail(s)) ELSE s

\* str.rstrip()
RECURSIVE RStrip(_)
RStrip(s) ==
  IF s # <<>> /\ IsSpace(s[Len(s)]) THEN RStrip(SubSeq(s, 1, Len(s) - 1)) ELSE s

\* str.strip(): drop leading and trailing whitespace
Strip(s) == RStrip(LStrip(s))

\* all strings over alphabet A of length at most n
RECURSIVE StringsUpTo(_, _)
StringsUpTo(A, n) ==
  IF n = 0 THEN {<<>>}
  ELSE LET shorter == StringsUpTo(A, n - 1)
       IN  shorter \cup {Append(s, c) : s \in shorter, c \in A}

\* dict.get(key, default)
DictGet(d, key, default) == IF key \in DOMAIN d THEN d[key] ELSE default

\* str.startswith(prefix)
StartsWith(s, prefix) ==
  Len(s) >= Len(prefix) /\ SubSeq(s, 1, Len(prefix)) = prefix

\* str.endswith(suffix)
EndsWith(s, suffix) ==
  Len(s) >= Len(suffix) /\ SubSeq(s, Len(s) - Len(suffix) + 1, Len(s)) = suffix

\* sub in s
Contains(s, sub) ==
  \E i \in 1..(Len(s) - Len(sub) + 1) : SubSeq(s, i, i + Len(sub) - 1) = sub

\* str.replace(old, new) for a non-empty old: every occurrence, left to right
RECURSIVE Replace(_, _, _)
Replace(s, old, new) ==
  IF s = <<>> THEN <<>>
  ELSE IF StartsWith(s, old)
       THEN new \o Replace(SubSeq(s, Len(old) + 1, Len(s)), old, new)
       ELSE <<s[1]>> \o Replace(Tail(s), old, new)

UpperCase ==
  <<"A", "B", "C", "D", "E", "F", "G", "H", "I", "J", "K", "L", "M",
    "N", "O", "P", "Q", "R", "S", "T", "U", "V", "W", "X", "Y", "Z">>

LowerCase ==
  <<"a", "b", "c", "d", "e", "f", "g", "h", "i", "j", "k", "l", "m",
    "n", "o", "p", "q", "r", "s", "t", "u", "v", "w", "x", "y", "z">>

LowerChar(c) ==
  IF \E i \in 1..26 : UpperCase[i] = c
  THEN LowerCase[CHOOSE i \in 1..26 : UpperCase[i] = c]
  ELSE c

\* str.lower()
Lower(s) == [i \in 1..Len(s) |-> LowerChar(s[i])]

----------------------------------------------------------------------------
(* core/styles.py *)

\* "None"
Style_None ==
  <<"N","o","n","e">>
\* "Realistic Photography"
Style_RealisticPhotography ==
  <<"R","e","a","l","i","s","t","i","c"," ","P","h","o","t","o","g","r","a","p","h","y">>
\* "Anime"
Style_Anime ==
  <<"A","n","i","m","e">>
\* "3D Render"
Style_3DRender ==
  <<"3","D"," ","R","e","n","d","e","r">>
\* "Oil Painting"
Style_OilPainting ==
  <<"O","i","l"," ","P","a","i","n","t","i","n","g">>
\* "Watercolor"
Style_Watercolor ==
  <<"W","a","t","e","r","c","o","l","o","r">>
\* "Cyberpunk"
Style_Cyberpunk ==
  <<"C","y","b","e","r","p","u","n","k">>
\* "Fantasy Art"
Style_FantasyArt ==
  <<"F","a","n","t","a","s","y"," ","A","r","t">>
\* "Pixel Art"
Style_PixelArt ==
  <<"P","i","x","e","l"," ","A","r","t">>
\* "Comic Book"
Style_ComicBook ==
  <<"C","o","m","i","c"," ","B","o","o","k">>

\* "None": prompt_prefix "",
\*   prompt_suffix ""
Preset_None ==
  [prompt_prefix |-> <<>>,
   prompt_suffix |-> <<>>,
   extra_params |-> <<>>,
   description |-> "No style modifications"]
\* "Realistic Photography": prompt_prefix "a high-resolution photograph of ",
\*   prompt_suffix ", ultra realistic, 8k, detailed lighting, professional photography"
Preset_RealisticPhotography ==
  [prompt_prefix |-> <<"a"," ","h","i","g","h","-","r","e","s","o","l","u","t","i","o","n"," ","p","h","o","t","o","g","r","a","p","h"," ","o","f"," ">>,
   prompt_suffix |-> <<","," ","u","l","t","r","a"," ","r","e","a","l","i","s","t","i","c",","," ","8","k",","," ","d","e","t","a","i","l","e","d"," ","l","i","g","h","t","i","n","g",","," ","p","r","o","f","e","s","s","i","o","n","a","l"," ","p","h","o","t","o","g","r","a","p","h","y">>,
   extra_params |-> <<>>,
   description |-> "Photorealistic style with high detail"]
\* "Anime": prompt_prefix "anime style illustration of ",
\*   prompt_suffix ", vibrant colors, clean line art, detailed, high quality anime"
Preset_Anime ==
  [prompt_prefix |-> <<"a","n","i","m","e"," ","s","t","y","l","e"," ","i","l","l","u","s","t","r","a","t","i","o","n"," ","o","f"," ">>,
   prompt_suffix |-> <<","," ","v","i","b","r","a","n","t"," ","c","o","l","o","r","s",","," ","c","l","e","a","n"," ","l","i","n","e"," ","a","r","t",","," ","d","e","t","a","i","l","e","d",","," ","h","i","g","h"," ","q","u","a","l","i","t","y"," ","a","n","i","m","e">>,
   extra_params |-> <<>>,
   description |-> "Japanese anime/manga style"]
\* "3D Render": prompt_prefix "3D render of ",
\*   prompt_suffix ", octane render, highly detailed, studio lighting, 8k, CGI"
Preset_3DRender ==
  [prompt_prefix |-> <<"3","D"," ","r","e","n","d","e","r"," ","o","f"," ">>,
   prompt_suffix |-> <<","," ","o","c","t","a","n","e"," ","r","e","n","d","e","r",","," ","h","i","g","h","l","y"," ","d","e","t","a","i","l","e","d",","," ","s","t","u","d","i","o"," ","l","i","g","h","t","i","n","g",","," ","8","k",","," ","C","G","I">>,
   extra_params |-> <<>>,
   description |-> "3D rendered, Pixar/CGI style"]
\* "Oil Painting": prompt_prefix "oil painting of ",
\*   prompt_suffix ", classical art style, brush strokes, artistic, masterpiece"
Preset_OilPainting ==
  [prompt_prefix |-> <<"o","i","l"," ","p","a","i","n","t","i","n","g"," ","o","f"," ">>,
   prompt_suffix |-> <<","," ","c","l","a","s","s","i","c","a","l"," ","a","r","t"," ","s","t","y","l","e",","," ","b","r","u","s","h"," ","s","t","r","o","k","e","s",","," ","a","r","t","i","s","t","i","c",","," ","m","a","s","t","e","r","p","i","e","c","e">>,
   extra_params |-> <<>>,
   description |-> "Traditional oil painting style"]
\* "Watercolor": prompt_prefix "watercolor painting of ",
\*   prompt_suffix ", soft colors, artistic, flowing, delicate, traditional art"
Preset_Watercolor ==
  [prompt_prefix |-> <<"w","a","t","e","r","c","o","l","o","r"," ","p","a","i","n","t","i","n","g"," ","o","f"," ">>,
   prompt_suffix |-> <<","," ","s","o","f","t"," ","c","o","l","o","r","s",","," ","a","r","t","i","s","t","i","c",","," ","f","l","o","w","i","n","g",","," ","d","e","l","i","c","a","t","e",","," ","t","r","a","d","i","t","i","o","n","a","l"," ","a","r","t">>,
   extra_params |-> <<>>,
   description |-> "Watercolor painting style"]
\* "Cyberpunk": prompt_prefix "cyberpunk style ",
\*   prompt_suffix ", neon lights, futuristic, high tech, dystopian, vibrant colors"
Preset_Cyberpunk ==
  [prompt_prefix |-> <<"c","y","b","e","r","p","u","n","k"," ","s","t","y","l","e"," ">>,
   prompt_suffix |-> <<","," ","n","e","o","n"," ","l","i","g","h","t","s",","," ","f","u","t","u","r","i","s","t","i","c",","," ","h","i","g","h"," ","t","e","c","h",","," ","d","y","s","t","o","p","i","a","n",","," ","v","i","b","r","a","n","t"," ","c","o","l","o","r","s">>,
   extra_params |-> <<>>,
   description |-> "Futuristic cyberpunk aesthetic"]
\* "Fantasy Art": prompt_prefix "fantasy art illustration of ",
\*   prompt_suffix ", magical, ethereal, detailed, epic, artstation trending"
Preset_FantasyArt ==
  [prompt_prefix |-> <<"f","a","n","t","a","s","y"," ","a","r","t"," ","i","l","l","u","s","t","r","a","t","i","o","n"," ","o","f"," ">>,
   prompt_suffix |-> <<","," ","m","a","g","i","c","a","l",","," ","e","t","h","e","r","e","a","l",","," ","d","e","t","a","i","l","e","d",","," ","e","p","i","c",","," ","a","r","t","s","t","a","t","i","o","n"," ","t","r","e","n","d","i","n","g">>,
   extra_params |-> <<>>,
   description |-> "Fantasy and magical themes"]
\* "Pixel Art": prompt_prefix "pixel art of ",
\*   prompt_suffix ", 8-bit, retro gaming style, detailed pixels, nostalgic"
Preset_PixelArt ==
  [prompt_prefix |-> <<"p","i","x","e","l"," ","a","r","t"," ","o","f"," ">>,
   prompt_suffix |-> <<","," ","8","-","b","i","t",","," ","r","e","t","r","o"," ","g","a","m","i","n","g"," ","s","t","y","l","e",","," ","d","e","t","a","i","l","e","d"," ","p","i","x","e","l","s",","," ","n","o","s","t","a","l","g","i","c">>,
   extra_params |-> <<>>,
   description |-> "Retro pixel art style"]
\* "Comic Book": prompt_prefix "comic book style illustration of ",
\*   prompt_suffix ", bold lines, vibrant colors, superhero art, dynamic"
Preset_ComicBook ==
  [prompt_prefix |-> <<"c","o","m","i","c"," ","b","o","o","k"," ","s","t","y","l","e"," ","i","l","l","u","s","t","r","a","t","i","o","n"," ","o","f"," ">>,
   prompt_suffix |-> <<","," ","b","o","l","d"," ","l","i","n","e","s",","," ","v","i","b","r","a","n","t"," ","c","o","l","o","r","s",","," ","s","u","p","e","r","h","e","r","o"," ","a","r","t",","," ","d","y","n","a","m","i","c">>,
   extra_params |-> <<>>,
   description |-> "Comic book illustration style"]

STYLE_PRESETS ==
  (Style_None :> Preset_None)
  @@ (Style_RealisticPhotography :> Preset_RealisticPhotography)
  @@ (Style_Anime :> Preset_Anime)
  @@ (Style_3DRender :> Preset_3DRender)
  @@ (Style_OilPainting :> Preset_OilPainting)
  @@ (Style_Watercolor :> Preset_Watercolor)
  @@ (Style_Cyberpunk :> Preset_Cyberpunk)
  @@ (Style_FantasyArt :> Preset_FantasyArt)
  @@ (Style_PixelArt :> Preset_PixelArt)
  @@ (Style_ComicBook :> Preset_ComicBook)

\* style names that are not keys of STYLE_PRESETS
UnknownStyles ==
  { <<"B","o","g","u","s">>, <<"n","o","n","e">>, <<>>, <<"A","n","i","m","e"," ">> }

StyleNames == (DOMAIN STYLE_PRESETS) \cup UnknownStyles

\* get_style_info(style_name)
get_style_info(style_name) ==
  DictGet(STYLE_PRESETS, style_name, STYLE_PRESETS[Style_None])

\* variant: the prompt is stripped before it is wrapped
apply_style_strips_prompt(base_prompt, style_name) ==
  IF base_prompt = <<>> \/ Strip(base_prompt) = <<>>
  THEN base_prompt
  ELSE LET style == DictGet(STYLE_PRESETS, style_name, STYLE_PRESETS[Style_None])
           styled_prompt ==
             style.prompt_prefix \o Strip(base_prompt) \o style.prompt_suffix
       IN  Strip(styled_prompt)

\* variant: the styled prompt is returned without the final strip
apply_style_no_final_strip(base_prompt, style_name) ==
  IF base_prompt = <<>> \/ Strip(base_prompt) = <<>>
  THEN base_prompt
  ELSE LET style == DictGet(STYLE_PRESETS, style_name, STYLE_PRESETS[Style_None])
       IN  style.prompt_prefix \o base_prompt \o style.prompt_suffix

\* variant: the style name is stripped before the lookup
apply_style_strips_name(base_prompt, style_name) ==
  IF base_prompt = <<>> \/ Strip(base_prompt) = <<>>
  THEN base_prompt
  ELSE LET style ==
             DictGet(STYLE_PRESETS, Strip(style_name), STYLE_PRESETS[Style_None])
           styled_prompt == style.prompt_prefix \o base_prompt \o style.prompt_suffix
       IN  Strip(styled_prompt)

\* variant: only the empty prompt is returned unchanged
apply_style_empty_only(base_prompt, style_name) ==
  IF base_prompt = <<>>
  THEN base_prompt
  ELSE LET style == DictGet(STYLE_PRESETS, style_name, STYLE_PRESETS[Style_None])
           styled_prompt == style.prompt_prefix \o base_prompt \o style.prompt_suffix
       IN  Strip(styled_prompt)

\* apply_style(base_prompt, style_name)
apply_style(base_prompt, style_name) ==
  IF base_prompt = <<>> \/ Strip(base_prompt) = <<>>
  THEN base_prompt
  ELSE LET style == DictGet(STYLE_PRESETS, style_name, STYLE_PRESETS[Style_None])
           styled_prompt == style.prompt_prefix \o base_prompt \o style.prompt_suffix
       IN  Strip(styled_prompt)

\* get_style_description(style_name)
get_style_description(style_name) ==
  LET style == DictGet(STYLE_PRESETS, style_name, STYLE_PRESETS[Style_None])
  IN  DictGet(style, "description", "")

----------------------------------------------------------------------------
(* Python values: None, numbers, strings *)

None == [t |-> "None"]

\* no value yet
NoValue == [t |-> "none"]

Num(v) == [t |-> "num", v |-> v]

Str(s) == [t |-> "str", s |-> s]

Float(v) == [t |-> "float", v |-> v]

PyMax(a, b) == IF b > a THEN b ELSE a

PyMin(a, b) == IF b < a THEN b ELSE a

Digits == <<"0", "1", "2", "3", "4", "5", "6", "7", "8", "9">>

IsDigit(c) == \E i \in 1..10 : Digits[i] = c

DigitVal(c) == (CHOOSE i \in 1..10 : Digits[i] = c) - 1

RECURSIVE DigitsVal(_)
DigitsVal(s) ==
  IF s = <<>> THEN 0
  ELSE 10 * DigitsVal(SubSeq(s, 1, Len(s) - 1)) + DigitVal(s[Len(s)])

\* int(str): surrounding whitespace, an optional sign, then one or more
\* digits; anything else raises ValueError (ok = FALSE)
ParseInt(s) ==
  LET body == Strip(s)
      signed == body # <<>> /\ body[1] \in {"-", "+"}
      digits == IF signed THEN Tail(body) ELSE body
  IN  IF digits # <<>> /\ \A i \in 1..Len(digits) : IsDigit(digits[i])
      THEN [ok |-> TRUE,
            v |-> IF signed /\ body[1] = "-" THEN 0 - DigitsVal(digits)
                  ELSE DigitsVal(digits)]
      ELSE [ok |-> FALSE, v |-> 0]

\* int(x) for an int or a str
PyInt(x) ==
  CASE x.t = "num" -> [ok |-> TRUE, v |-> x.v]
    [] x.t = "str" -> ParseInt(x.s)
    [] OTHER -> [ok |-> FALSE, v |-> 0]

RECURSIVE NatStr(_)
NatStr(n) ==
  IF n < 10 THEN <<Digits[n + 1]>>
  ELSE NatStr(n \div 10) \o <<Digits[(n % 10) + 1]>>

\* str(n) for an int
IntStr(n) == IF n < 0 THEN <<"-">> \o NatStr(0 - n) ELSE NatStr(n)

\* str(x) as an f-string formats it
PyStr(x) ==
  CASE x.t = "num" -> IntStr(x.v)
    [] x.t = "str" -> x.s
    [] OTHER -> <<"N", "o", "n", "e">>

----------------------------------------------------------------------------
(* config.py *)

DEFAULT_NUM_INFERENCE_STEPS == 30

DEFAULT_GUIDANCE_SCALE == (75 * Scale) \div 10

DEFAULT_HEIGHT == 512

DEFAULT_WIDTH == 512

DEFAULT_STRENGTH == (75 * Scale) \div 100

MIN_STEPS == 1

MAX_STEPS == 100

MIN_GUIDANCE_SCALE == 1 * Scale

MAX_GUIDANCE_SCALE == 20 * Scale

MIN_RESOLUTION == 256

MAX_HEIGHT == 768

MAX_WIDTH == 768

----------------------------------------------------------------------------
(* utils/image_utils.py, utils/system_utils.py, core/generation.py *)

\* variant: rounds to the nearest multiple of 8 instead of down
validate_dimensions_nearest(width, height, min_size, max_size) ==
  LET w == PyMax(min_size, PyMin(width, max_size))
      h == PyMax(min_size, PyMin(height, max_size))
  IN  <<((w + 4) \div 8) * 8, ((h + 4) \div 8) * 8>>

\* validate_dimensions(width, height, min_size, max_size) -> (width, height)
validate_dimensions(width, height, min_size, max_size) ==
  LET w == PyMax(min_size, PyMin(width, max_size))
      h == PyMax(min_size, PyMin(height, max_size))
  IN  <<(w \div 8) * 8, (h \div 8) * 8>>

\* variant: the negative check is missing
fix_seed_keeps_negative(seed) ==
  IF seed = None \/ seed = Num(-1) \/ seed = Str(<<>>)
  THEN None
  ELSE LET seed_int == PyInt(seed)
       IN  IF ~seed_int.ok THEN None ELSE Num(seed_int.v)

\* fix_seed(seed)
fix_seed(seed) ==
  IF seed = None \/ seed = Num(-1) \/ seed = Str(<<>>)
  THEN None
  ELSE LET seed_int == PyInt(seed)
       IN  IF ~seed_int.ok THEN None
           ELSE IF seed_int.v < 0 THEN None
           ELSE Num(seed_int.v)

\* variant: steps has no lower bound, guidance no upper bound
clamp_parameters_one_sided(steps, guidance_scale, height, width, strength) ==
  LET dims == validate_dimensions(width, height, MIN_RESOLUTION, MAX_HEIGHT)
      clamped ==
        [steps |-> PyMin(steps, MAX_STEPS),
         guidance_scale |-> PyMax(MIN_GUIDANCE_SCALE, guidance_scale),
         height |-> dims[2],
         width |-> dims[1]]
  IN  IF strength # None
      THEN clamped @@ [strength |-> PyMax(0, PyMin(strength.v, 1 * Scale))]
      ELSE clamped

\* clamp_parameters testing "if strength:" instead of "is not None": a
\* strength of 0.0 counts as absent
clamp_parameters_strength_truthy(steps, guidance_scale, height, width, strength) ==
  LET dims == validate_dimensions(width, height, MIN_RESOLUTION, MAX_HEIGHT)
      clamped ==
        [steps |-> PyMax(MIN_STEPS, PyMin(steps, MAX_STEPS)),
         guidance_scale |->
           PyMax(MIN_GUIDANCE_SCALE, PyMin(guidance_scale, MAX_GUIDANCE_SCALE)),
         height |-> dims[2],
         width |-> dims[1]]
  IN  IF strength # None /\ strength.v # 0
      THEN clamped @@ [strength |-> PyMax(0, PyMin(strength.v, 1 * Scale))]
      ELSE clamped

\* clamp_parameters(steps, guidance_scale, height, width, strength)
clamp_parameters(steps, guidance_scale, height, width, strength) ==
  LET dims == validate_dimensions(width, height, MIN_RESOLUTION, MAX_HEIGHT)
      clamped ==
        [steps |-> PyMax(MIN_STEPS, PyMin(steps, MAX_STEPS)),
         guidance_scale |->
           PyMax(MIN_GUIDANCE_SCALE, PyMin(guidance_scale, MAX_GUIDANCE_SCALE)),
         height |-> dims[2],
         width |-> dims[1]]
  IN  IF strength # None
      THEN clamped @@ [strength |-> PyMax(0, PyMin(strength.v, 1 * Scale))]
      ELSE clamped

----------------------------------------------------------------------------
(* api/huggingface.py *)

\* a PIL image: its size and the call that produced it
Image(size, by) == [t |-> "image", size |-> size, by |-> by]

Returns(v) == [raised |-> FALSE, value |-> v]

Raises(msg) == [raised |-> TRUE, msg |-> msg]

\* HuggingFaceAPI.is_configured
is_configured(self) == self.token # <<>> /\ StartsWith(self.token, <<"h", "f", "_">>)

\* HuggingFaceAPI.__init__: the token is read from the environment
HuggingFaceAPI(model_id, env_token) ==
  LET self == [model_id |-> model_id, token |-> env_token]
  IN  self @@ [client |-> IF is_configured(self)
                          THEN [t |-> "InferenceClient", token |-> env_token]
                          ELSE None]

\* the hint printed for a failed text_to_image call
Text2ImgHint(error_msg) ==
  IF Contains(Lower(error_msg), <<"l", "o", "a", "d", "i", "n", "g">>) THEN "loading"
  ELSE IF Contains(Lower(error_msg), <<"r", "a", "t", "e", " ", "l", "i", "m", "i", "t">>) THEN "rate limit"
  ELSE IF Contains(error_msg, <<"5", "0", "3">>) THEN "unavailable"
  ELSE "none"

\* generate_text2img that sends the request a second time when the first
\* attempt fails
API_generate_text2img_retrying(self, prompt, negative_prompt, num_inference_steps, guidance_scale, width, height, seed, reply) ==
  IF ~is_configured(self)
  THEN Raises("HF_TOKEN not configured") @@ [calls |-> <<>>, hints |-> <<>>]
  ELSE LET sent == [op |-> "text_to_image",
                    prompt |-> prompt,
                    model |-> self.model_id,
                    negative_prompt |->
                      IF negative_prompt # <<>> THEN Str(negative_prompt) ELSE None,
                    guidance_scale |-> guidance_scale,
                    num_inference_steps |-> num_inference_steps]
       IN  IF reply.ok
           THEN Returns(Image(reply.size, "text_to_image"))
                  @@ [calls |-> <<sent>>, hints |-> <<>>]
           ELSE Returns(None)
                  @@ [calls |-> <<sent, sent>>,
                      hints |-> <<Text2ImgHint(reply.msg), Text2ImgHint(reply.msg)>>]

\* HuggingFaceAPI.generate_text2img; reply is what InferenceClient.text_to_image
\* does: it returns an image or raises with a message
API_generate_text2img(self, prompt, negative_prompt, num_inference_steps, guidance_scale, width, height, seed, reply) ==
  IF ~is_configured(self)
  THEN Raises("HF_TOKEN not configured") @@ [calls |-> <<>>, hints |-> <<>>]
  ELSE LET sent == [op |-> "text_to_image",
                    prompt |-> prompt,
                    model |-> self.model_id,
                    negative_prompt |->
                      IF negative_prompt # <<>> THEN Str(negative_prompt) ELSE None,
                    guidance_scale |-> guidance_scale,
                    num_inference_steps |-> num_inference_steps]
       IN  IF reply.ok
           THEN Returns(Image(reply.size, "text_to_image"))
                  @@ [calls |-> <<sent>>, hints |-> <<>>]
           ELSE Returns(None)
                  @@ [calls |-> <<sent>>, hints |-> <<Text2ImgHint(reply.msg)>>]

\* HuggingFaceAPI.generate_img2img; reply is what InferenceClient.image_to_image
\* does, fallback_reply what text_to_image does if the fallback calls it
API_generate_img2img(self, prompt, init_image, strength, negative_prompt, num_inference_steps, guidance_scale, seed, reply, fallback_reply) ==
  IF ~is_configured(self)
  THEN Raises("HF_TOKEN not configured") @@ [calls |-> <<>>, hints |-> <<>>]
  ELSE LET sent == [op |-> "image_to_image",
                    image |-> init_image,
                    prompt |-> prompt,
                    model |-> self.model_id,
                    negative_prompt |->
                      IF negative_prompt # <<>> THEN Str(negative_prompt) ELSE None,
                    strength |-> strength,
                    guidance_scale |-> guidance_scale,
                    num_inference_steps |-> num_inference_steps]
       IN  IF reply.ok
           THEN Returns(Image(reply.size, "image_to_image"))
                  @@ [calls |-> <<sent>>, hints |-> <<>>]
           ELSE IF Contains(Lower(reply.msg), <<"l", "o", "a", "d", "i", "n", "g">>)
           THEN Returns(None) @@ [calls |-> <<sent>>, hints |-> <<"loading">>]
           ELSE IF \/ Contains(Lower(reply.msg), <<"n", "o", "t", " ", "s", "u", "p", "p", "o", "r", "t", "e", "d">>)
                   \/ Contains(Lower(reply.msg), <<"i", "m", "a", "g", "e", "_", "t", "o", "_", "i", "m", "a", "g", "e">>)
           THEN LET fallback ==
                      API_generate_text2img(self, prompt, negative_prompt,
                                            num_inference_steps, guidance_scale,
                                            512, 512, seed, fallback_reply)
                IN  [raised |-> fallback.raised,
                     value |-> fallback.value,
                     calls |-> <<sent>> \o fallback.calls,
                     hints |-> <<"not supported">> \o fallback.hints]
           ELSE Returns(None) @@ [calls |-> <<sent>>, hints |-> <<"none">>]

----------------------------------------------------------------------------
(* core/generation.py: the local generation functions *)

\* devices torch.Generator accepts
TorchDevices == {"cuda", "cpu"}

\* get_torch_generator(device, seed)
get_torch_generator(device, seed) ==
  IF seed = None THEN Returns(None)
  ELSE IF device \notin TorchDevices THEN Raises("invalid device string")
  ELSE Returns([t |-> "Generator", device |-> device, seed |-> seed.v])

BlankPrompt(prompt) == prompt = <<>> \/ Strip(prompt) = <<>>

\* generate_text2img(pipe, prompt, style, ...); pipe_reply is what the
\* pipeline does when it is called: it returns an image or raises
generate_text2img(pipe, prompt, style, num_inference_steps, guidance_scale, height, width, seed, device, pipe_reply) ==
  IF BlankPrompt(prompt)
  THEN Raises("Prompt cannot be empty") @@ [calls |-> <<>>]
  ELSE
    LET styled_prompt == apply_style(Strip(prompt), style)
        params == clamp_parameters(num_inference_steps, guidance_scale,
                                   height, width, None)
        fixed_seed == fix_seed(seed)
        generator == get_torch_generator(device, fixed_seed)
        metadata ==
          [prompt |-> Str(prompt),
           styled_prompt |-> Str(styled_prompt),
           style |-> Str(style),
           steps |-> Num(params.steps),
           guidance_scale |-> Float(params.guidance_scale),
           height |-> Num(params.height),
           width |-> Num(params.width),
           seed |-> IF fixed_seed # None THEN fixed_seed ELSE Str(<<"r", "a", "n", "d", "o", "m">>),
           type |-> Str(<<"t", "e", "x", "t", "2", "i", "m", "g">>)]
        sent == [op |-> "text2img_pipe",
                 prompt |-> styled_prompt,
                 num_inference_steps |-> params.steps,
                 guidance_scale |-> params.guidance_scale,
                 height |-> params.height,
                 width |-> params.width,
                 generator |-> generator.value]
    IN  IF generator.raised THEN Raises(generator.msg) @@ [calls |-> <<>>]
        ELSE IF pipe = None
        THEN Raises("'NoneType' object is not callable") @@ [calls |-> <<>>]
        ELSE IF ~pipe_reply.ok
        THEN Raises(pipe_reply.msg) @@ [calls |-> <<sent>>]
        ELSE Returns(<<Image(<<params.width, params.height>>, "text2img_pipe"),
                       metadata>>)
               @@ [calls |-> <<sent>>]

\* generate_img2img(pipe, prompt, init_image, strength, style, ...)
generate_img2img(pipe, prompt, init_image, strength, style, num_inference_steps, guidance_scale, seed, device, pipe_reply) ==
  IF BlankPrompt(prompt)
  THEN Raises("Prompt cannot be empty") @@ [calls |-> <<>>]
  ELSE IF init_image = None
  THEN Raises("Input image is required for image-to-image generation")
         @@ [calls |-> <<>>]
  ELSE
    LET styled_prompt == apply_style(Strip(prompt), style)
        params == clamp_parameters(num_inference_steps, guidance_scale,
                                   512, 512, strength)
        fixed_seed == fix_seed(seed)
        generator == get_torch_generator(device, fixed_seed)
        img_dims == validate_dimensions(init_image.size[1], init_image.size[2],
                                        MIN_RESOLUTION, MAX_HEIGHT)
        img_width == img_dims[1]
        img_height == img_dims[2]
        \* resize_to_dimensions floors to multiples of 8 once more
        resized == [init_image EXCEPT
                      !.size = <<(img_width \div 8) * 8, (img_height \div 8) * 8>>]
        metadata ==
          [prompt |-> Str(prompt),
           styled_prompt |-> Str(styled_prompt),
           style |-> Str(style),
           strength |-> Float(params.strength),
           steps |-> Num(params.steps),
           guidance_scale |-> Float(params.guidance_scale),
           height |-> Num(img_height),
           width |-> Num(img_width),
           seed |-> IF fixed_seed # None THEN fixed_seed ELSE Str(<<"r", "a", "n", "d", "o", "m">>),
           type |-> Str(<<"i", "m", "g", "2", "i", "m", "g">>)]
        sent == [op |-> "img2img_pipe",
                 prompt |-> styled_prompt,
                 image |-> resized,
                 strength |-> params.strength,
                 num_inference_steps |-> params.steps,
                 guidance_scale |-> params.guidance_scale,
                 generator |-> generator.value]
    IN  IF generator.raised THEN Raises(generator.msg) @@ [calls |-> <<>>]
        ELSE IF pipe = None
        THEN Raises("'NoneType' object is not callable") @@ [calls |-> <<>>]
        ELSE IF ~pipe_reply.ok
        THEN Raises(pipe_reply.msg) @@ [calls |-> <<sent>>]
        ELSE Returns(<<Image(resized.size, "img2img_pipe"), metadata>>)
               @@ [calls |-> <<sent>>]

----------------------------------------------------------------------------
(* core/history.py *)

\* the date and time up to the minute, as strftime("%Y%m%d_%H%M%S") prints
\* them; the clock of the model counts the seconds of that minute
MinuteStamp == <<"2", "0", "2", "4", "0", "1", "0", "1", "_", "1", "2", "0", "0">>

\* datetime.now().strftime("%Y%m%d_%H%M%S") at second t of the minute
Strftime(t) == MinuteStamp \o <<Digits[(t \div 10) + 1], Digits[(t % 10) + 1]>>

\* generate_filename that leaves the seed out of the name
generate_filename_without_seed(metadata, t) ==
  LET timestamp == Strftime(t)
      style == Lower(Replace(DictGet(metadata, "style", Str(<<"n", "o", "n", "e">>)).s,
                             <<" ">>, <<"_">>))
      gen_type == DictGet(metadata, "type", Str(<<"t", "e", "x", "t", "2", "i", "m", "g">>))
  IN  timestamp \o <<"_">> \o PyStr(gen_type) \o <<"_">> \o style
        \o <<".", "p", "n", "g">>

\* generate_filename(metadata) at time t
generate_filename(metadata, t) ==
  LET timestamp == Strftime(t)
      seed == DictGet(metadata, "seed", Str(<<"r", "a", "n", "d", "o", "m">>))
      style == Lower(Replace(DictGet(metadata, "style", Str(<<"n", "o", "n", "e">>)).s,
                             <<" ">>, <<"_">>))
      gen_type == DictGet(metadata, "type", Str(<<"t", "e", "x", "t", "2", "i", "m", "g">>))
  IN  timestamp \o <<"_">> \o PyStr(gen_type) \o <<"_">> \o style \o <<"_">>
        \o PyStr(seed) \o <<".", "p", "n", "g">>

\* the time of day a file or a record is stamped with
Time(t) == [t |-> "time", v |-> t]

\* d[key] = value on a dict
DictSet(d, key, value) ==
  [k \in (DOMAIN d) \cup {key} |-> IF k = key THEN value ELSE d[k]]

\* an output directory that does not exist
NoDir == [t |-> "missing"]

\* os.makedirs(output_dir, exist_ok=True)
makedirs(dir) == IF dir = NoDir THEN <<>> ELSE dir

\* save_image that refuses to overwrite: an image of the same name makes it
\* raise FileExistsError
save_image_no_overwrite(image, metadata, dir, t, png_ok, json_ok) ==
  LET made == makedirs(dir)
      filename == generate_filename(metadata, t)
      filepath == filename
      with_png == DictSet(made, filepath,
                          [mtime |-> t, content |-> image])
      metadata_filename == Replace(filename, <<".", "p", "n", "g">>, <<".", "j", "s", "o", "n">>)
      stamped == DictSet(DictSet(metadata, "saved_at", Time(t)),
                         "filename", Str(filename))
      with_json == DictSet(with_png, metadata_filename,
                           [mtime |-> t, content |-> stamped])
  IN  IF ~png_ok \/ filepath \in DOMAIN made
      THEN Raises("cannot write image") @@ [dir |-> made, metadata |-> metadata]
      ELSE Returns(filepath)
             @@ [dir |-> IF json_ok THEN with_json ELSE with_png,
                 metadata |-> stamped]

\* save_image in which a failed sidecar write is fatal: the exception of the
\* write leaves save_image
save_image_sidecar_fatal(image, metadata, dir, t, png_ok, json_ok) ==
  LET made == makedirs(dir)
      filename == generate_filename(metadata, t)
      filepath == filename
      with_png == DictSet(made, filepath,
                          [mtime |-> t, content |-> image])
      metadata_filename == Replace(filename, <<".", "p", "n", "g">>, <<".", "j", "s", "o", "n">>)
      stamped == DictSet(DictSet(metadata, "saved_at", Time(t)),
                         "filename", Str(filename))
      with_json == DictSet(with_png, metadata_filename,
                           [mtime |-> t, content |-> stamped])
  IN  IF ~png_ok
      THEN Raises("cannot write image") @@ [dir |-> made, metadata |-> metadata]
      ELSE IF ~json_ok
      THEN Raises("cannot write metadata") @@ [dir |-> with_png, metadata |-> stamped]
      ELSE Returns(filepath) @@ [dir |-> with_json, metadata |-> stamped]

\* save_image(image, metadata, output_dir) at time t; dir is the content of
\* output_dir (file name -> file); png_ok and json_ok tell whether the two
\* writes succeed
save_image(image, metadata, dir, t, png_ok, json_ok) ==
  LET made == makedirs(dir)
      filename == generate_filename(metadata, t)
      filepath == filename
      with_png == DictSet(made, filepath,
                          [mtime |-> t, content |-> image])
      metadata_filename == Replace(filename, <<".", "p", "n", "g">>, <<".", "j", "s", "o", "n">>)
      stamped == DictSet(DictSet(metadata, "saved_at", Time(t)),
                         "filename", Str(filename))
      with_json == DictSet(with_png, metadata_filename,
                           [mtime |-> t, content |-> stamped])
  IN  IF ~png_ok
      THEN Raises("cannot write image") @@ [dir |-> made, metadata |-> metadata]
      ELSE Returns(filepath)
             @@ [dir |-> IF json_ok THEN with_json ELSE with_png,
                 metadata |-> stamped]

\* load_metadata(image_path); readable tells whether the sidecar parses
load_metadata(dir, image_path, readable) ==
  LET metadata_path == Replace(image_path, <<".", "p", "n", "g">>, <<".", "j", "s", "o", "n">>)
  IN  IF dir = NoDir \/ metadata_path \notin DOMAIN dir THEN None
      ELSE IF ~readable THEN None
      ELSE dir[metadata_path].content

\* the images of a directory: [f for f in os.listdir(output_dir) if f.endswith(".png")]
PngFiles(dir) == {f \in DOMAIN dir : EndsWith(f, <<".", "p", "n", "g">>)}

\* the orders in which os.listdir can yield the images of the directory
Listings(dir) ==
  LET n == Cardinality(PngFiles(dir))
  IN  {s \in [1..n -> PngFiles(dir)] : \A i, j \in 1..n : i # j => s[i] # s[j]}

\* list.sort(key=getmtime, reverse=True) by insertion: stable, files of equal
\* modification time keep the order they had
RECURSIVE InsertByMtime(_, _, _)
InsertByMtime(dir, sorted, f) ==
  IF sorted = <<>> THEN <<f>>
  ELSE IF dir[Head(sorted)].mtime >= dir[f].mtime
       THEN <<Head(sorted)>> \o InsertByMtime(dir, Tail(sorted), f)
       ELSE <<f>> \o sorted

RECURSIVE SortNewestFirst(_, _)
SortNewestFirst(dir, files) ==
  IF files = <<>> THEN <<>>
  ELSE InsertByMtime(dir, SortNewestFirst(dir, SubSeq(files, 1, Len(files) - 1)),
                     files[Len(files)])

\* seq[:limit] of Python
SliceTo(seq, limit) ==
  IF limit >= 0 THEN SubSeq(seq, 1, PyMin(limit, Len(seq)))
  ELSE SubSeq(seq, 1, PyMax(0, Len(seq) + limit))

\* list_recent_images sorting oldest first: reverse=True forgotten
list_recent_images_oldest_first(dir, listing, limit) ==
  IF dir = NoDir THEN <<>>
  ELSE LET newest_first == SortNewestFirst(dir, listing)
           image_files == [i \in 1..Len(listing) |->
                             newest_first[Len(listing) + 1 - i]]
       IN  SliceTo(image_files, limit)

\* list_recent_images(output_dir, limit); listing is the order os.listdir
\* yields the images in
list_recent_images(dir, listing, limit) ==
  IF dir = NoDir THEN <<>>
  ELSE LET image_files == SortNewestFirst(dir, listing)
       IN  SliceTo(image_files, limit)

\* get_image_count(output_dir)
get_image_count(dir) ==
  IF dir = NoDir THEN 0 ELSE Cardinality(PngFiles(dir))

\* clear_history that removes the images only and leaves the sidecars
clear_history_images_only(dir, confirm, failing) ==
  IF ~confirm THEN [value |-> 0, dir |-> dir]
  ELSE IF dir = NoDir THEN [value |-> 0, dir |-> dir]
  ELSE LET matching == {f \in DOMAIN dir : EndsWith(f, <<".", "p", "n", "g">>)}
           removed == matching \ failing
       IN  [value |-> Cardinality(removed),
            dir |-> [f \in (DOMAIN dir) \ removed |-> dir[f]]]

\* clear_history that deletes without asking for the confirmation
clear_history_unconfirmed(dir, confirm, failing) ==
  IF dir = NoDir THEN [value |-> 0, dir |-> dir]
  ELSE LET matching == {f \in DOMAIN dir :
                          EndsWith(f, <<".", "p", "n", "g">>) \/ EndsWith(f, <<".", "j", "s", "o", "n">>)}
           removed == matching \ failing
       IN  [value |-> Cardinality(removed),
            dir |-> [f \in (DOMAIN dir) \ removed |-> dir[f]]]

\* clear_history(output_dir, confirm); failing is the set of files os.remove
\* fails on
clear_history(dir, confirm, failing) ==
  IF ~confirm THEN [value |-> 0, dir |-> dir]
  ELSE IF dir = NoDir THEN [value |-> 0, dir |-> dir]
  ELSE LET matching == {f \in DOMAIN dir :
                          EndsWith(f, <<".", "p", "n", "g">>) \/ EndsWith(f, <<".", "j", "s", "o", "n">>)}
           removed == matching \ failing
       IN  [value |-> Cardinality(removed),
            dir |-> [f \in (DOMAIN dir) \ removed |-> dir[f]]]

----------------------------------------------------------------------------
(* config.py: mode selection *)

SD_MODEL_ID == "runwayml/stable-diffusion-v1-5"

API_MODEL_ID == "black-forest-labs/FLUX.1-dev"

\* get_active_mode where "auto" only asks for a credential to be present
get_active_mode_any_token(GENERATION_MODE, HF_API_TOKEN) ==
  IF GENERATION_MODE = "local" THEN "local"
  ELSE IF GENERATION_MODE = "api" THEN "api"
  ELSE IF GENERATION_MODE = "auto"
  THEN IF HF_API_TOKEN # <<>> THEN "api" ELSE "local"
  ELSE "local"

\* get_active_mode(); GENERATION_MODE and HF_API_TOKEN are module globals
get_active_mode(GENERATION_MODE, HF_API_TOKEN) ==
  IF GENERATION_MODE = "local" THEN "local"
  ELSE IF GENERATION_MODE = "api" THEN "api"
  ELSE IF GENERATION_MODE = "auto"
  THEN IF HF_API_TOKEN # <<>> /\ StartsWith(HF_API_TOKEN, <<"h", "f", "_">>)
       THEN "api"
       ELSE "local"
  ELSE "local"

----------------------------------------------------------------------------
(* ui/app.py: the request wrappers *)

ErrorInfo(msg) == [status |-> "error", msg |-> msg]

\* what a wrapper hands back to the UI, and what it did on the way;
\* raised tells whether an exception leaves the wrapper; both wrappers end in
\* "except Exception", so what they hand back is always a return value
Outcome(image, info, dir, remote, local, hints) ==
  [raised |-> FALSE, image |-> image, info |-> info, dir |-> dir,
   remote |-> remote, local |-> local, hints |-> hints]

\* the tail of both wrappers with save_image outside the try block: a failed
\* image write leaves the wrapper as an exception
SaveAndReport_uncaught(title, current_mode, prompt, style, image, metadata, dir, t, env, remote, local, hints) ==
  LET saved == save_image(image, metadata, dir, t, env.png_ok, env.json_ok)
      mode_indicator == IF current_mode = "api" THEN "API" ELSE "Local"
  IN  IF saved.raised
      THEN [Outcome(None, Raises(saved.msg), saved.dir, remote, local, hints)
              EXCEPT !.raised = TRUE]
      ELSE Outcome(image,
                   [status |-> title,
                    mode_indicator |-> mode_indicator,
                    prompt |-> prompt,
                    style |-> style,
                    metadata |-> saved.metadata,
                    filepath |-> saved.value],
                   saved.dir, remote, local, hints)

\* the tail of both wrappers: save_image, then the info text
SaveAndReport(title, current_mode, prompt, style, image, metadata, dir, t, env, remote, local, hints) ==
  LET saved == save_image(image, metadata, dir, t, env.png_ok, env.json_ok)
      mode_indicator == IF current_mode = "api" THEN "API" ELSE "Local"
  IN  IF saved.raised
      THEN Outcome(None, ErrorInfo(saved.msg), saved.dir, remote, local, hints)
      ELSE Outcome(image,
                   [status |-> title,
                    mode_indicator |-> mode_indicator,
                    prompt |-> prompt,
                    style |-> style,
                    metadata |-> saved.metadata,
                    filepath |-> saved.value],
                   saved.dir, remote, local, hints)

\* generate_wrapper that stores a placeholder picture when the API gave none
generate_wrapper_saves_placeholder(prompt, style, steps, guidance, height, width, seed_in, use_random_seed, use_api, dir, t, env) ==
  LET device == pipelines.device
      seed == IF use_random_seed THEN Num(env.random_seed) ELSE seed_in
      styled_prompt == apply_style(prompt, style)
      current_mode == IF use_api THEN "api" ELSE "local"
  IN  IF current_mode = "api"
      THEN
        IF "api_client" \notin DOMAIN pipelines
        THEN Outcome(None, ErrorInfo("'api_client'"), dir, <<>>, <<>>, <<>>)
        ELSE
          LET api_client == pipelines.api_client
              got == API_generate_text2img(api_client, styled_prompt, <<>>,
                                           steps, guidance, width, height,
                                           seed, env.remote)
              image == got.value
              metadata ==
                [prompt |-> Str(prompt),
                 styled_prompt |-> Str(styled_prompt),
                 style |-> Str(style),
                 steps |-> Num(steps),
                 guidance_scale |-> Float(guidance),
                 width |-> Num(image.size[1]),
                 height |-> Num(image.size[2]),
                 seed |-> seed,
                 mode |-> Str(<<"a", "p", "i">>),
                 generation_type |-> Str(<<"t", "e", "x", "t", "2", "i", "m", "g">>)]
          IN  IF got.raised
              THEN Outcome(None, ErrorInfo(got.msg), dir,
                           got.calls, <<>>, got.hints)
              ELSE IF image = None
              THEN Outcome(None,
                           [status |-> "failed",
                            msg |-> "API request failed. Check your token or try again."],
                           save_image(Image(<<512, 512>>, "placeholder"),
                                      [seed |-> seed, style |-> Str(style)],
                                      dir, t, TRUE, TRUE).dir,
                           got.calls, <<>>, got.hints)
              ELSE SaveAndReport("Generation Complete!", current_mode, prompt,
                                 style, image, metadata, dir, t, env,
                                 got.calls, <<>>, got.hints)
      ELSE
        LET pipe == pipelines.text2img
            got == generate_text2img(pipe, prompt, style, steps, guidance,
                                     height, width, seed, device, env.pipe)
        IN  IF got.raised
            THEN Outcome(None, ErrorInfo(got.msg), dir, <<>>, got.calls, <<>>)
            ELSE SaveAndReport("Generation Complete!", current_mode, prompt,
                               style, got.value[1], got.value[2], dir, t, env,
                               <<>>, got.calls, <<>>)

\* generate_wrapper(prompt, style, steps, guidance, height, width, seed,
\*                  use_random_seed, use_api) of create_text2img_interface;
\* the closure reads pipelines
generate_wrapper(prompt, style, steps, guidance, height, width, seed_in, use_random_seed, use_api, dir, t, env) ==
  LET device == pipelines.device
      seed == IF use_random_seed THEN Num(env.random_seed) ELSE seed_in
      styled_prompt == apply_style(prompt, style)
      current_mode == IF use_api THEN "api" ELSE "local"
  IN  IF current_mode = "api"
      THEN
        IF "api_client" \notin DOMAIN pipelines
        THEN Outcome(None, ErrorInfo("'api_client'"), dir, <<>>, <<>>, <<>>)
        ELSE
          LET api_client == pipelines.api_client
              got == API_generate_text2img(api_client, styled_prompt, <<>>,
                                           steps, guidance, width, height,
                                           seed, env.remote)
              image == got.value
              metadata ==
                [prompt |-> Str(prompt),
                 styled_prompt |-> Str(styled_prompt),
                 style |-> Str(style),
                 steps |-> Num(steps),
                 guidance_scale |-> Float(guidance),
                 width |-> Num(image.size[1]),
                 height |-> Num(image.size[2]),
                 seed |-> seed,
                 mode |-> Str(<<"a", "p", "i">>),
                 generation_type |-> Str(<<"t", "e", "x", "t", "2", "i", "m", "g">>)]
          IN  IF got.raised
              THEN Outcome(None, ErrorInfo(got.msg), dir,
                           got.calls, <<>>, got.hints)
              ELSE IF image = None
              THEN Outcome(None,
                           [status |-> "failed",
                            msg |-> "API request failed. Check your token or try again."],
                           dir, got.calls, <<>>, got.hints)
              ELSE SaveAndReport("Generation Complete!", current_mode, prompt,
                                 style, image, metadata, dir, t, env,
                                 got.calls, <<>>, got.hints)
      ELSE
        LET pipe == pipelines.text2img
            got == generate_text2img(pipe, prompt, style, steps, guidance,
                                     height, width, seed, device, env.pipe)
        IN  IF got.raised
            THEN Outcome(None, ErrorInfo(got.msg), dir, <<>>, got.calls, <<>>)
            ELSE SaveAndReport("Generation Complete!", current_mode, prompt,
                               style, got.value[1], got.value[2], dir, t, env,
                               <<>>, got.calls, <<>>)

\* transform_wrapper without its own check of the input image: the request
\* goes on to the dispatch
transform_wrapper_no_image_check(input_image, prompt, style, strength, steps, guidance, seed_in, use_random_seed, use_api, dir, t, env) ==
  LET device == pipelines.device
      seed == IF use_random_seed THEN Num(env.random_seed) ELSE seed_in
      styled_prompt == apply_style(prompt, style)
      current_mode == IF use_api THEN "api" ELSE "local"
  IN  IF FALSE
      THEN Outcome(None, ErrorInfo("Please upload an input image"), dir,
                   <<>>, <<>>, <<>>)
      ELSE IF current_mode = "api"
      THEN
        IF "api_client" \notin DOMAIN pipelines
        THEN Outcome(None, ErrorInfo("'api_client'"), dir, <<>>, <<>>, <<>>)
        ELSE
          LET api_client == pipelines.api_client
              got == API_generate_img2img(api_client, styled_prompt, input_image,
                                          strength, <<>>, steps, guidance, seed,
                                          env.remote, env.fallback)
              image == got.value
              metadata ==
                [prompt |-> Str(prompt),
                 styled_prompt |-> Str(styled_prompt),
                 style |-> Str(style),
                 strength |-> Float(strength),
                 steps |-> Num(steps),
                 guidance_scale |-> Float(guidance),
                 seed |-> seed,
                 mode |-> Str(<<"a", "p", "i">>),
                 generation_type |-> Str(<<"i", "m", "g", "2", "i", "m", "g">>)]
          IN  IF got.raised
              THEN Outcome(None, ErrorInfo(got.msg), dir,
                           got.calls, <<>>, got.hints)
              ELSE IF image = None
              THEN Outcome(None,
                           [status |-> "failed",
                            msg |-> "API request failed or img2img not supported by API"],
                           dir, got.calls, <<>>, got.hints)
              ELSE SaveAndReport("Transformation Complete!", current_mode,
                                 prompt, style, image, metadata, dir, t, env,
                                 got.calls, <<>>, got.hints)
      ELSE
        LET pipe == pipelines.img2img
            got == generate_img2img(pipe, prompt, input_image, Float(strength),
                                    style, steps, guidance, seed, device,
                                    env.pipe)
        IN  IF got.raised
            THEN Outcome(None, ErrorInfo(got.msg), dir, <<>>, got.calls, <<>>)
            ELSE SaveAndReport("Transformation Complete!", current_mode, prompt,
                               style, got.value[1], got.value[2], dir, t, env,
                               <<>>, got.calls, <<>>)

\* transform_wrapper(input_image, prompt, style, strength, steps, guidance,
\*                   seed, use_random_seed, use_api) of create_img2img_interface
transform_wrapper(input_image, prompt, style, strength, steps, guidance, seed_in, use_random_seed, use_api, dir, t, env) ==
  LET device == pipelines.device
      seed == IF use_random_seed THEN Num(env.random_seed) ELSE seed_in
      styled_prompt == apply_style(prompt, style)
      current_mode == IF use_api THEN "api" ELSE "local"
  IN  IF input_image = None
      THEN Outcome(None, ErrorInfo("Please upload an input image"), dir,
                   <<>>, <<>>, <<>>)
      ELSE IF current_mode = "api"
      THEN
        IF "api_client" \notin DOMAIN pipelines
        THEN Outcome(None, ErrorInfo("'api_client'"), dir, <<>>, <<>>, <<>>)
        ELSE
          LET api_client == pipelines.api_client
              got == API_generate_img2img(api_client, styled_prompt, input_image,
                                          strength, <<>>, steps, guidance, seed,
                                          env.remote, env.fallback)
              image == got.value
              metadata ==
                [prompt |-> Str(prompt),
                 styled_prompt |-> Str(styled_prompt),
                 style |-> Str(style),
                 strength |-> Float(strength),
                 steps |-> Num(steps),
                 guidance_scale |-> Float(guidance),
                 seed |-> seed,
                 mode |-> Str(<<"a", "p", "i">>),
                 generation_type |-> Str(<<"i", "m", "g", "2", "i", "m", "g">>)]
          IN  IF got.raised
              THEN Outcome(None, ErrorInfo(got.msg), dir,
                           got.calls, <<>>, got.hints)
              ELSE IF image = None
              THEN Outcome(None,
                           [status |-> "failed",
                            msg |-> "API request failed or img2img not supported by API"],
                           dir, got.calls, <<>>, got.hints)
              ELSE SaveAndReport("Transformation Complete!", current_mode,
                                 prompt, style, image, metadata, dir, t, env,
                                 got.calls, <<>>, got.hints)
      ELSE
        LET pipe == pipelines.img2img
            got == generate_img2img(pipe, prompt, input_image, Float(strength),
                                    style, steps, guidance, seed, device,
                                    env.pipe)
        IN  IF got.raised
            THEN Outcome(None, ErrorInfo(got.msg), dir, <<>>, got.calls, <<>>)
            ELSE SaveAndReport("Transformation Complete!", current_mode, prompt,
                               style, got.value[1], got.value[2], dir, t, env,
                               <<>>, got.calls, <<>>)

----------------------------------------------------------------------------
(* The application: start-up, the clock and the two request wrappers *)

\* values of GENERATION_MODE
ModeFlags == {"local", "api", "auto", "cloud"}

\* values of the HF_TOKEN environment variable
Tokens == {<<>>, <<"h", "f", "_", "x">>, <<"x">>}

ErrorMessages ==
  { <<"M", "o", "d", "e", "l", " ", "i", "s", " ", "c", "u", "r", "r", "e", "n", "t", "l", "y", " ", "l", "o", "a", "d", "i", "n", "g">>,
    <<"R", "a", "t", "e", " ", "l", "i", "m", "i", "t", " ", "r", "e", "a", "c", "h", "e", "d">>,
    <<"5", "0", "3", " ", "S", "e", "r", "v", "i", "c", "e", " ", "U", "n", "a", "v", "a", "i", "l", "a", "b", "l", "e">>,
    <<"T", "a", "s", "k", " ", "n", "o", "t", " ", "s", "u", "p", "p", "o", "r", "t", "e", "d">>,
    <<"i", "m", "a", "g", "e", "_", "t", "o", "_", "i", "m", "a", "g", "e", " ", "i", "s", " ", "s", "t", "i", "l", "l", " ", "L", "o", "a", "d", "i", "n", "g">> }

\* size of the images the remote model returns
RemoteSize == <<1024, 1024>>

OkReply == [ok |-> TRUE, size |-> RemoteSize]

RemoteReplies == {OkReply} \cup {[ok |-> FALSE, msg |-> m] : m \in ErrorMessages}

\* replies to the text_to_image call of the img2img fallback
FallbackReplies == {OkReply, [ok |-> FALSE, msg |-> <<"5", "0", "3", " ", "S", "e", "r", "v", "i", "c", "e", " ", "U", "n", "a", "v", "a", "i", "l", "a", "b", "l", "e">>]}

PipeReplies == {[ok |-> TRUE], [ok |-> FALSE, msg |-> "CUDA out of memory"]}

\* prompts typed into the UI
AppPrompts == {<<>>, <<" ">>, <<" ", "a">>}

\* styles chosen in the dropdown
AppStyles == {Style_Anime}

\* numeric fields of a request: steps, guidance, height, width, strength
AppParams ==
  { [steps |-> DEFAULT_NUM_INFERENCE_STEPS, guidance |-> DEFAULT_GUIDANCE_SCALE,
     height |-> DEFAULT_HEIGHT, width |-> DEFAULT_WIDTH,
     strength |-> DEFAULT_STRENGTH],
    [steps |-> MAX_STEPS + 100, guidance |-> MIN_GUIDANCE_SCALE - 1,
     height |-> MIN_RESOLUTION - 1, width |-> MAX_WIDTH + 1,
     strength |-> Scale + 1] }

\* the seed field and the "Use Random Seed" box
AppSeeds ==
  { [seed |-> Num(-1), use_random_seed |-> TRUE],
    [seed |-> Num(-1), use_random_seed |-> FALSE],
    [seed |-> Num(7), use_random_seed |-> FALSE] }

\* values generate_random_seed() returns; random.randint(0, 2**32 - 1)
RandomSeeds == {LargeSeed}

\* an image uploaded for a transformation
Upload == Image(<<1000, 301>>, "upload")

\* the machine has no GPU: get_device() returns "cpu"
CudaAvailable == {FALSE}

\* what the environment does during one request; a reply that the request
\* cannot ask for is fixed
Envs(use_api, transform) ==
  {[remote |-> r, fallback |-> f, pipe |-> p,
    png_ok |-> w[1], json_ok |-> w[2], random_seed |-> rs] :
      r \in IF use_api THEN RemoteReplies ELSE {OkReply},
      f \in IF use_api /\ transform THEN FallbackReplies ELSE {OkReply},
      p \in IF use_api THEN {[ok |-> TRUE]} ELSE PipeReplies,
      w \in {<<TRUE, TRUE>>, <<TRUE, FALSE>>, <<FALSE, TRUE>>},
      rs \in RandomSeeds}

\* the requests the Transform button is pressed with
TransformRequests ==
  {[input_image |-> Upload, prompt |-> pr, style |-> st, p |-> p, s |-> sd,
    use_api |-> api] :
      pr \in AppPrompts, st \in AppStyles, p \in AppParams, sd \in AppSeeds,
      api \in BOOLEAN}
  \cup {[input_image |-> None, prompt |-> <<" ", "a">>, style |-> Style_Anime,
          p |-> p, s |-> [seed |-> Num(7), use_random_seed |-> FALSE],
          use_api |-> api] :
      p \in AppParams, api \in BOOLEAN}

AppInit ==
  /\ pc = "boot"
  /\ exit_status = None
  /\ pipelines = <<>>
  /\ outdir = <<>>
  /\ now = 0
  /\ requests = 0
  /\ last = [fn |-> "none"]

FnIdle ==
  /\ call = [fn |-> "none"]
  /\ ret = NoValue

Init == AppInit /\ FnIdle

\* main() mutated: API mode keeps the client it built even when the client is
\* not configured
main_without_fallback(flag, env_token, load_ok, cuda, ui_ok) ==
  LET mode == get_active_mode(flag, env_token)
      api_client == HuggingFaceAPI(API_MODEL_ID, env_token)
      use_client == mode = "api"
      loaded == [text2img |-> [t |-> "StableDiffusionPipeline"],
                 img2img |-> [t |-> "StableDiffusionImg2ImgPipeline"],
                 device |-> IF cuda THEN "cuda" ELSE "cpu"]
  IN  IF use_client
      THEN [pipelines |-> [mode |-> "api",
                           api_client |-> api_client,
                           text2img |-> None,
                           img2img |-> None,
                           device |-> "cloud"],
            ui |-> IF ui_ok THEN "created" ELSE "failed",
            pc |-> IF ui_ok THEN "serving" ELSE "exited",
            exit_status |-> IF ui_ok THEN None ELSE Num(1)]
      ELSE IF load_ok
      THEN [pipelines |-> DictSet(loaded, "mode", "local"),
            ui |-> IF ui_ok THEN "created" ELSE "failed",
            pc |-> IF ui_ok THEN "serving" ELSE "exited",
            exit_status |-> IF ui_ok THEN None ELSE Num(1)]
      ELSE [pipelines |-> <<>>,
            ui |-> "not reached",
            pc |-> "exited",
            exit_status |-> Num(1)]

\* main(): ensure directories, pick the mode, build the API client or load
\* the local pipelines, create the UI; ui tells how far create_app got
main(flag, env_token, load_ok, cuda, ui_ok) ==
  LET mode == get_active_mode(flag, env_token)
      api_client == HuggingFaceAPI(API_MODEL_ID, env_token)
      use_client == mode = "api" /\ is_configured(api_client)
      \* init_pipelines()
      loaded == [text2img |-> [t |-> "StableDiffusionPipeline"],
                 img2img |-> [t |-> "StableDiffusionImg2ImgPipeline"],
                 device |-> IF cuda THEN "cuda" ELSE "cpu"]
  IN  IF use_client
      THEN [pipelines |-> [mode |-> "api",
                           api_client |-> api_client,
                           text2img |-> None,
                           img2img |-> None,
                           device |-> "cloud"],
            ui |-> IF ui_ok THEN "created" ELSE "failed",
            pc |-> IF ui_ok THEN "serving" ELSE "exited",
            exit_status |-> IF ui_ok THEN None ELSE Num(1)]
      ELSE IF load_ok
      THEN [pipelines |-> DictSet(loaded, "mode", "local"),
            ui |-> IF ui_ok THEN "created" ELSE "failed",
            pc |-> IF ui_ok THEN "serving" ELSE "exited",
            exit_status |-> IF ui_ok THEN None ELSE Num(1)]
      ELSE [pipelines |-> <<>>,
            ui |-> "not reached",
            pc |-> "exited",
            exit_status |-> Num(1)]

\* the process starts: main() runs up to app.launch or to sys.exit
Main ==
  /\ pc = "boot"
  /\ \E flag \in ModeFlags, env_token \in Tokens,
        load_ok \in BOOLEAN, cuda \in CudaAvailable, ui_ok \in BOOLEAN :
       LET started == main(flag, env_token, load_ok, cuda, ui_ok)
       IN  /\ pipelines' = started.pipelines
           /\ pc' = started.pc
           /\ exit_status' = started.exit_status
  /\ UNCHANGED <<outdir, now, requests, last, call, ret>>

\* a second passes
Tick ==
  /\ now < MaxTime
  /\ now' = now + 1
  /\ UNCHANGED <<pc, exit_status, pipelines, outdir, requests, last, call, ret>>

\* the Generate button: generate_wrapper runs to its return
GenerateWrapper ==
  /\ pc = "serving"
  /\ requests < MaxRequests
  /\ \E prompt \in AppPrompts, style \in AppStyles, p \in AppParams,
        s \in AppSeeds, use_api \in BOOLEAN :
       \E env \in Envs(use_api, FALSE) :
         \E out \in {generate_wrapper(prompt, style, p.steps, p.guidance,
                                       p.height, p.width, s.seed,
                                       s.use_random_seed, use_api, outdir, now,
                                       env)} :
             /\ outdir' = out.dir
             /\ last' = [fn |-> "generate_wrapper",
                         prompt |-> prompt, style |-> style,
                         steps |-> p.steps, guidance |-> p.guidance,
                         height |-> p.height, width |-> p.width,
                         seed |-> s.seed, use_random_seed |-> s.use_random_seed,
                         use_api |-> use_api,
                         raised |-> out.raised,
                         image |-> out.image, info |-> out.info,
                         remote |-> out.remote, local |-> out.local,
                         hints |-> out.hints]
  /\ requests' = requests + 1
  /\ UNCHANGED <<pc, exit_status, pipelines, now, call, ret>>

\* the Transform button: transform_wrapper runs to its return
TransformWrapper ==
  /\ pc = "serving"
  /\ requests < MaxRequests
  /\ \E r \in TransformRequests :
       \E env \in Envs(r.use_api, TRUE) :
         \E out \in {transform_wrapper(r.input_image, r.prompt, r.style,
                                        r.p.strength, r.p.steps, r.p.guidance,
                                        r.s.seed, r.s.use_random_seed, r.use_api,
                                        outdir, now, env)} :
             /\ outdir' = out.dir
             /\ last' = [fn |-> "transform_wrapper",
                         input_image |-> r.input_image,
                         prompt |-> r.prompt, style |-> r.style,
                         strength |-> r.p.strength,
                         steps |-> r.p.steps, guidance |-> r.p.guidance,
                         seed |-> r.s.seed,
                         use_random_seed |-> r.s.use_random_seed,
                         use_api |-> r.use_api,
                         raised |-> out.raised,
                         image |-> out.image, info |-> out.info,
                         remote |-> out.remote, local |-> out.local,
                         hints |-> out.hints]
  /\ requests' = requests + 1
  /\ UNCHANGED <<pc, exit_status, pipelines, now, call, ret>>

Next ==
  \/ Main
  \/ Tick
  \/ GenerateWrapper
  \/ TransformWrapper

Spec == Init /\ [][Next]_vars

----------------------------------------------------------------------------
(* Pure functions applied to drawn inputs *)

PromptAlphabet == {" ", "\t", "a", "b"}

Prompts == StringsUpTo(PromptAlphabet, MaxLen)

SeedAlphabet == {"1", "7", "-", " ", "x"}

SeedInputs ==
  {None}
  \cup {Num(v) : v \in ((0 - Margin)..Margin) \cup {LargeSeed, 0 - LargeSeed}}
  \cup {Str(s) : s \in StringsUpTo(SeedAlphabet, MaxSeedLen)}

DimSweep ==
  ((MIN_RESOLUTION - Margin)..(MAX_HEIGHT + Margin)) \cup {0 - FarOut, 0, FarOut}

DimSamples == {MIN_RESOLUTION - 1, 515, MAX_HEIGHT + 1}

StepsSweep ==
  ((MIN_STEPS - Margin)..(MAX_STEPS + Margin)) \cup {0 - FarOut, FarOut}

StepsSamples == {MIN_STEPS - 1, DEFAULT_NUM_INFERENCE_STEPS, MAX_STEPS + 1}

GuidanceSweep ==
  ((MIN_GUIDANCE_SCALE - Margin)..(MAX_GUIDANCE_SCALE + Margin))
  \cup {0 - FarOut, FarOut}

GuidanceSamples ==
  {MIN_GUIDANCE_SCALE - 1, DEFAULT_GUIDANCE_SCALE, MAX_GUIDANCE_SCALE + 1}

StrengthSweep ==
  {None}
  \cup {Float(v) : v \in ((0 - Margin)..(Scale + Margin)) \cup {0 - FarOut, FarOut}}

StrengthSamples == {None, Float(DEFAULT_STRENGTH), Float(Scale + 1)}

DimCalls ==
  {[fn |-> "validate_dimensions", width |-> w, height |-> h,
    min_size |-> MIN_RESOLUTION, max_size |-> MAX_HEIGHT] :
      w \in DimSweep, h \in DimSamples}
  \cup {[fn |-> "validate_dimensions", width |-> w, height |-> h,
    min_size |-> MIN_RESOLUTION, max_size |-> MAX_HEIGHT] :
      w \in DimSamples, h \in DimSweep}

ClampCall(s, g, h, w, st) ==
  [fn |-> "clamp_parameters", steps |-> s, guidance_scale |-> g,
   height |-> h, width |-> w, strength |-> st]

ClampCalls ==
  {ClampCall(s, g, h, w, st) :
      s \in StepsSweep, g \in GuidanceSamples, h \in {515}, w \in {MAX_WIDTH + 1},
      st \in StrengthSamples}
  \cup {ClampCall(s, g, h, w, st) :
      s \in StepsSamples, g \in GuidanceSweep, h \in {MIN_RESOLUTION - 1},
      w \in {515}, st \in StrengthSamples}
  \cup {ClampCall(s, g, h, w, st) :
      s \in {DEFAULT_NUM_INFERENCE_STEPS}, g \in {DEFAULT_GUIDANCE_SCALE},
      h \in DimSweep, w \in DimSamples, st \in {None}}
  \cup {ClampCall(s, g, h, w, st) :
      s \in {DEFAULT_NUM_INFERENCE_STEPS}, g \in {DEFAULT_GUIDANCE_SCALE},
      h \in DimSamples, w \in DimSweep, st \in {None}}
  \cup {ClampCall(s, g, h, w, st) :
      s \in StepsSamples, g \in GuidanceSamples, h \in {DEFAULT_HEIGHT},
      w \in {DEFAULT_WIDTH}, st \in StrengthSweep}

SeedCalls == {[fn |-> "fix_seed", seed |-> x] : x \in SeedInputs}

StyleCalls ==
  {[fn |-> "apply_style", base_prompt |-> p, style_name |-> s] :
      p \in Prompts, s \in StyleNames}
  \cup {[fn |-> f, style_name |-> s] :
      f \in {"get_style_info", "get_style_description"}, s \in StyleNames}

\* values GENERATION_MODE is set to, the documented ones and others
ModeFlagInputs == ModeFlags \cup {"", "Auto", "API", "remote"}

\* values of HF_TOKEN, well-formed and not
TokenInputs ==
  Tokens \cup {<<"h", "f", "_">>, <<"h", "f">>, <<"H", "F", "_", "x">>,
               <<" ", "h", "f", "_", "x">>, <<"x", "h", "f", "_">>}

ModeCalls ==
  {[fn |-> "get_active_mode", GENERATION_MODE |-> m, HF_API_TOKEN |-> tk] :
      m \in ModeFlagInputs, tk \in TokenInputs}

\* calls of the two methods of a HuggingFaceAPI client made with the token tk
ApiCalls ==
  {[fn |-> "api_generate_text2img", token |-> tk, prompt |-> <<"a">>,
    num_inference_steps |-> st, guidance_scale |-> DEFAULT_GUIDANCE_SCALE,
    seed |-> sd, reply |-> r] :
      tk \in Tokens, st \in {DEFAULT_NUM_INFERENCE_STEPS, MAX_STEPS + 100},
      sd \in {None, Num(7)}, r \in RemoteReplies}
  \cup {[fn |-> "api_generate_img2img", token |-> tk, prompt |-> <<"a">>,
    init_image |-> Upload, strength |-> DEFAULT_STRENGTH,
    num_inference_steps |-> st, guidance_scale |-> DEFAULT_GUIDANCE_SCALE,
    seed |-> sd, reply |-> r, fallback_reply |-> f] :
      tk \in Tokens, st \in {DEFAULT_NUM_INFERENCE_STEPS, MAX_STEPS + 100},
      sd \in {None, Num(7)}, r \in RemoteReplies, f \in RemoteReplies}

\* seeds a metadata record carries: a non-negative integer or "random"
FilenameSeeds == {Num(0), Num(1), Num(10), Num(LargeSeed), Str(<<"r", "a", "n", "d", "o", "m">>)}

\* style names, with blanks, underscores and digits at their ends
FilenameStyles == {Style_None, Style_PixelArt, <<"a", "_", "1">>, <<"a", " ", "1">>, <<"1", "_">>, <<"A">>}

FilenameTypes == {Str(<<"t", "e", "x", "t", "2", "i", "m", "g">>), Str(<<"i", "m", "g", "2", "i", "m", "g">>)}

\* metadata records handed to generate_filename, with and without "type"
FilenameMetadata ==
  {[seed |-> sd, style |-> Str(st)] : sd \in FilenameSeeds, st \in FilenameStyles}
  \cup {[seed |-> sd, style |-> Str(st), type |-> ty] :
          sd \in FilenameSeeds, st \in FilenameStyles, ty \in FilenameTypes}

\* two generations with different seeds, each named at its own second
FilenameCalls ==
  {[fn |-> "generate_filename", m1 |-> a, t1 |-> ta, m2 |-> b, t2 |-> tb] :
      a \in FilenameMetadata, ta \in 0..MaxTime,
      b \in FilenameMetadata, tb \in 0..MaxTime}

\* runs of main() under every mode flag and credential
MainCalls ==
  {[fn |-> "main", GENERATION_MODE |-> m, HF_TOKEN |-> tk, load_ok |-> l,
    cuda |-> c, ui_ok |-> u] :
      m \in ModeFlagInputs, tk \in TokenInputs, l \in BOOLEAN,
      c \in BOOLEAN, u \in BOOLEAN}

FnCalls ==
  StyleCalls \cup DimCalls \cup ClampCalls \cup SeedCalls \cup ModeCalls
    \cup ApiCalls \cup {c \in FilenameCalls : c.m1.seed # c.m2.seed}
    \cup MainCalls

\* a call is drawn; it has not returned yet
FnInit ==
  /\ AppInit
  /\ call \in FnCalls
  /\ ret = NoValue

appvars == <<pc, exit_status, pipelines, outdir, now, requests, last>>

ApplyStyle ==
  /\ call.fn = "apply_style"
  /\ ret = NoValue
  /\ ret' = [t |-> "str", s |-> apply_style(call.base_prompt, call.style_name)]
  /\ UNCHANGED <<call, appvars>>

\* the result of apply_style is given to apply_style again, same style
ReapplyStyle ==
  /\ call.fn = "apply_style"
  /\ ret # NoValue
  /\ call' = [fn |-> "apply_style_again", base_prompt |-> ret.s,
              style_name |-> call.style_name]
  /\ ret' = [t |-> "str", s |-> apply_style(ret.s, call.style_name)]
  /\ UNCHANGED appvars

GetStyleInfo ==
  /\ call.fn = "get_style_info"
  /\ ret = NoValue
  /\ ret' = [t |-> "dict", d |-> get_style_info(call.style_name)]
  /\ UNCHANGED <<call, appvars>>

GetStyleDescription ==
  /\ call.fn = "get_style_description"
  /\ ret = NoValue
  /\ ret' = [t |-> "desc", s |-> get_style_description(call.style_name)]
  /\ UNCHANGED <<call, appvars>>

ValidateDimensions ==
  /\ call.fn = "validate_dimensions"
  /\ ret = NoValue
  /\ ret' = [t |-> "dims",
             d |-> validate_dimensions(call.width, call.height,
                                       call.min_size, call.max_size)]
  /\ UNCHANGED <<call, appvars>>

ClampParameters ==
  /\ call.fn = "clamp_parameters"
  /\ ret = NoValue
  /\ ret' = [t |-> "dict",
             d |-> clamp_parameters(call.steps, call.guidance_scale,
                                    call.height, call.width, call.strength)]
  /\ UNCHANGED <<call, appvars>>

FixSeed ==
  /\ call.fn = "fix_seed"
  /\ ret = NoValue
  /\ ret' = [t |-> "seed", v |-> fix_seed(call.seed)]
  /\ UNCHANGED <<call, appvars>>

GetActiveMode ==
  /\ call.fn = "get_active_mode"
  /\ ret = NoValue
  /\ ret' = [t |-> "mode",
             s |-> get_active_mode(call.GENERATION_MODE, call.HF_API_TOKEN)]
  /\ UNCHANGED <<call, appvars>>

\* HuggingFaceAPI(API_MODEL_ID).generate_text2img(...)
ApiGenerateText2Img ==
  /\ call.fn = "api_generate_text2img"
  /\ ret = NoValue
  /\ ret' = [t |-> "api"]
              @@ API_generate_text2img(HuggingFaceAPI(API_MODEL_ID, call.token),
                                       call.prompt, <<>>,
                                       call.num_inference_steps,
                                       call.guidance_scale, 512, 512, call.seed,
                                       call.reply)
  /\ UNCHANGED <<call, appvars>>

\* HuggingFaceAPI(API_MODEL_ID).generate_img2img(...)
ApiGenerateImg2Img ==
  /\ call.fn = "api_generate_img2img"
  /\ ret = NoValue
  /\ ret' = [t |-> "api"]
              @@ API_generate_img2img(HuggingFaceAPI(API_MODEL_ID, call.token),
                                      call.prompt, call.init_image,
                                      call.strength, <<>>,
                                      call.num_inference_steps,
                                      call.guidance_scale, call.seed,
                                      call.reply, call.fallback_reply)
  /\ UNCHANGED <<call, appvars>>

\* generate_filename for the first generation and for the second
GenerateFilename ==
  /\ call.fn = "generate_filename"
  /\ ret = NoValue
  /\ ret' = [t |-> "names",
             a |-> generate_filename(call.m1, call.t1),
             b |-> generate_filename(call.m2, call.t2)]
  /\ UNCHANGED <<call, appvars>>

\* main() run on the flag, the credential and what loading and create_app do
RunMain ==
  /\ call.fn = "main"
  /\ ret = NoValue
  /\ ret' = [t |-> "main"]
              @@ main(call.GENERATION_MODE, call.HF_TOKEN, call.load_ok,
                      call.cuda, call.ui_ok)
  /\ UNCHANGED <<call, appvars>>

FnNext ==
  \/ ValidateDimensions
  \/ ClampParameters
  \/ FixSeed
  \/ ApplyStyle
  \/ ReapplyStyle
  \/ GetStyleInfo
  \/ GetStyleDescription
  \/ GetActiveMode
  \/ ApiGenerateText2Img
  \/ ApiGenerateImg2Img
  \/ GenerateFilename
  \/ RunMain

SpecFn == FnInit /\ [][FnNext]_vars

----------------------------------------------------------------------------
(* One request against a started application, with what the environment
   does during the request kept next to the request *)

\* the pipelines dict main() hands to create_app
BootedPipelines ==
  {[mode |-> "api",
    api_client |-> HuggingFaceAPI(API_MODEL_ID, tk),
    text2img |-> None,
    img2img |-> None,
    device |-> "cloud"] : tk \in {x \in Tokens : is_configured([token |-> x])}}
  \cup {[mode |-> "local",
         text2img |-> [t |-> "StableDiffusionPipeline"],
         img2img |-> [t |-> "StableDiffusionImg2ImgPipeline"],
         device |-> IF cuda THEN "cuda" ELSE "cpu"] : cuda \in CudaAvailable}

\* the output directory before the request: empty, or holding the image and
\* the sidecar of a local generation saved at second 0
EarlierOutputs ==
  {<<>>,
   save_image(Image(<<512, 512>>, "text2img_pipe"),
              [prompt |-> Str(<<"b">>),
               styled_prompt |-> Str(apply_style(<<"b">>, Style_Anime)),
               style |-> Str(Style_Anime),
               steps |-> Num(DEFAULT_NUM_INFERENCE_STEPS),
               guidance_scale |-> Float(DEFAULT_GUIDANCE_SCALE),
               height |-> Num(DEFAULT_HEIGHT),
               width |-> Num(DEFAULT_WIDTH),
               seed |-> Num(7),
               type |-> Str(<<"t", "e", "x", "t", "2", "i", "m", "g">>)],
              <<>>, 0, TRUE, TRUE).dir}

ReqCalls ==
  {[fn |-> "generate_wrapper", prompt |-> pr, style |-> st, p |-> p, s |-> sd,
    use_api |-> api, env |-> env] :
      pr \in AppPrompts, st \in AppStyles, p \in AppParams, sd \in AppSeeds,
      api \in BOOLEAN, env \in Envs(TRUE, FALSE) \cup Envs(FALSE, FALSE)}
  \cup {[fn |-> "transform_wrapper"] @@ r @@ [env |-> env] :
      r \in TransformRequests, env \in Envs(TRUE, TRUE) \cup Envs(FALSE, TRUE)}

\* the UI is up and a button is about to be pressed
ReqInit ==
  /\ pc = "serving"
  /\ exit_status = None
  /\ pipelines \in BootedPipelines
  /\ outdir \in EarlierOutputs
  /\ now \in 0..MaxTime
  /\ requests = 0
  /\ last = [fn |-> "none"]
  /\ call \in {c \in ReqCalls : c.env \in Envs(c.use_api, c.fn = "transform_wrapper")}
  /\ ret = NoValue

ReqGenerate ==
  /\ call.fn = "generate_wrapper"
  /\ ret = NoValue
  /\ \E out \in {generate_wrapper(call.prompt, call.style, call.p.steps,
                                   call.p.guidance, call.p.height, call.p.width,
                                   call.s.seed, call.s.use_random_seed,
                                   call.use_api, outdir, now, call.env)} :
       /\ outdir' = out.dir
       /\ ret' = [t |-> "outcome"] @@ out
  /\ requests' = requests + 1
  /\ UNCHANGED <<pc, exit_status, pipelines, now, last, call>>

ReqTransform ==
  /\ call.fn = "transform_wrapper"
  /\ ret = NoValue
  /\ \E out \in {transform_wrapper(call.input_image, call.prompt, call.style,
                                    call.p.strength, call.p.steps,
                                    call.p.guidance, call.s.seed,
                                    call.s.use_random_seed, call.use_api,
                                    outdir, now, call.env)} :
       /\ outdir' = out.dir
       /\ ret' = [t |-> "outcome"] @@ out
  /\ requests' = requests + 1
  /\ UNCHANGED <<pc, exit_status, pipelines, now, last, call>>

ReqNext ==
  \/ ReqGenerate
  \/ ReqTransform

SpecReq == ReqInit /\ [][ReqNext]_vars

----------------------------------------------------------------------------
(* The history functions called one after the other on an output directory *)

\* generations handed to save_image: the first two agree in seed, style and
\* type, the third has another seed
HistGenerations ==
  {[image |-> Image(<<512, 512>>, "first"),
    metadata |-> [prompt |-> Str(<<"a">>), style |-> Str(Style_Anime),
                  steps |-> Num(DEFAULT_NUM_INFERENCE_STEPS),
                  seed |-> Num(7), type |-> Str(<<"t", "e", "x", "t", "2", "i", "m", "g">>)]],
   [image |-> Image(<<768, 512>>, "second"),
    metadata |-> [prompt |-> Str(<<"b">>), style |-> Str(Style_Anime),
                  steps |-> Num(MAX_STEPS),
                  seed |-> Num(7), type |-> Str(<<"t", "e", "x", "t", "2", "i", "m", "g">>)]],
   [image |-> Image(<<512, 512>>, "third"),
    metadata |-> [prompt |-> Str(<<"a">>), style |-> Str(Style_Anime),
                  steps |-> Num(DEFAULT_NUM_INFERENCE_STEPS),
                  seed |-> Num(8), type |-> Str(<<"t", "e", "x", "t", "2", "i", "m", "g">>)]]}

\* a file in the output directory that no generation wrote
OtherFile == <<"n", "o", "t", "e", "s", ".", "t", "x", "t">>

\* the output directory when the module is imported: missing, empty, or
\* holding a file of the user
HistDirs ==
  {NoDir, <<>>, OtherFile :> [mtime |-> 0, content |-> Str(<<"k", "e", "e", "p">>)]}

\* limits list_recent_images is called with
ListLimits == {0, 1, 2, 10}

HistInit ==
  /\ pc = "boot"
  /\ exit_status = None
  /\ pipelines = <<>>
  /\ outdir \in HistDirs
  /\ now = 0
  /\ requests = 0
  /\ last = [fn |-> "none"]
  /\ call = [fn |-> "none"]
  /\ ret = NoValue

\* last is the call before the one in call
histfixed == <<pc, exit_status, pipelines>>

\* a second passes
HistTick ==
  /\ now < MaxTime
  /\ now' = now + 1
  /\ UNCHANGED <<outdir, requests, last, call, ret, histfixed>>

\* save_image(image, metadata)
SaveImage ==
  /\ requests < MaxOps
  /\ \E g \in HistGenerations, png_ok \in BOOLEAN, json_ok \in BOOLEAN :
       \E out \in {save_image(g.image, g.metadata, outdir, now, png_ok, json_ok)} :
         /\ call' = [fn |-> "save_image", image |-> g.image,
                     metadata |-> g.metadata, t |-> now,
                     png_ok |-> png_ok, json_ok |-> json_ok]
         /\ ret' = [t |-> "saved", raised |-> out.raised,
                    value |-> IF out.raised THEN None ELSE Str(out.value)]
         /\ outdir' = out.dir
  /\ requests' = requests + 1
  /\ last' = call
  /\ UNCHANGED <<now, histfixed>>

\* load_metadata(image_path) for an image of the directory or for a path
\* that is not there
LoadMetadata ==
  /\ requests < MaxOps
  /\ outdir # NoDir
  /\ \E image_path \in PngFiles(outdir) \cup {<<"n", "o", "n", "e", ".", "p", "n", "g">>}, readable \in BOOLEAN :
       /\ call' = [fn |-> "load_metadata", image_path |-> image_path,
                   readable |-> readable]
       /\ ret' = [t |-> "metadata",
                  value |-> load_metadata(outdir, image_path, readable)]
  /\ requests' = requests + 1
  /\ last' = call
  /\ UNCHANGED <<outdir, now, histfixed>>

\* list_recent_images(limit=limit)
ListRecentImages ==
  /\ requests < MaxOps
  /\ \E limit \in ListLimits :
       \E listing \in IF outdir = NoDir THEN {<<>>} ELSE Listings(outdir) :
         /\ call' = [fn |-> "list_recent_images", limit |-> limit]
         /\ ret' = [t |-> "paths",
                    value |-> list_recent_images(outdir, listing, limit)]
  /\ requests' = requests + 1
  /\ last' = call
  /\ UNCHANGED <<outdir, now, histfixed>>

\* get_image_count()
GetImageCount ==
  /\ requests < MaxOps
  /\ call' = [fn |-> "get_image_count"]
  /\ ret' = [t |-> "count", value |-> get_image_count(outdir)]
  /\ requests' = requests + 1
  /\ last' = call
  /\ UNCHANGED <<outdir, now, histfixed>>

\* clear_history(confirm=confirm); os.remove fails on no file or on one
ClearHistory ==
  /\ requests < MaxOps
  /\ \E confirm \in BOOLEAN :
       \E failing \in {{}} \cup
            (IF outdir = NoDir \/ ~confirm THEN {}
             ELSE {{f} : f \in DOMAIN outdir}) :
         \E out \in {clear_history(outdir, confirm, failing)} :
           /\ call' = [fn |-> "clear_history", confirm |-> confirm,
                       failing |-> failing]
           /\ ret' = [t |-> "deleted", value |-> out.value]
           /\ outdir' = out.dir
  /\ requests' = requests + 1
  /\ last' = call
  /\ UNCHANGED <<now, histfixed>>

HistNext ==
  \/ HistTick
  \/ SaveImage
  \/ LoadMetadata
  \/ ListRecentImages
  \/ GetImageCount
  \/ ClearHistory

SpecHist == HistInit /\ [][HistNext]_vars

----------------------------------------------------------------------------
(* Properties of the pure functions, checked under SpecFn *)

Returned(f) == call.fn = f /\ ret # NoValue

\* x clamped into [lo, hi]
ClampedInto(x, lo, hi) == IF x < lo THEN lo ELSE IF x > hi THEN hi ELSE x

\* r is the largest multiple of 8 not exceeding x clamped into the
\* configured resolution range
IsNormalizedDim(r, x) ==
  LET c == ClampedInto(x, MIN_RESOLUTION, MAX_HEIGHT)
  IN  /\ r % 8 = 0
      /\ r <= c
      /\ c < r + 8
      /\ MIN_RESOLUTION <= r
      /\ r <= MAX_HEIGHT

C2_StepsGuidanceSaturate ==
  Returned("clamp_parameters") =>
    /\ call.steps > 100 => ret.d.steps = 100
    /\ call.steps < 1 => ret.d.steps = 1
    /\ (1 <= call.steps /\ call.steps <= 100) => ret.d.steps = call.steps
    /\ call.guidance_scale > 20 * Scale => ret.d.guidance_scale = 20 * Scale
    /\ call.guidance_scale < 1 * Scale => ret.d.guidance_scale = 1 * Scale
    /\ (1 * Scale <= call.guidance_scale /\ call.guidance_scale <= 20 * Scale)
         => ret.d.guidance_scale = call.guidance_scale

C2_Witness ==
  /\ Returned("clamp_parameters")
  /\ call.steps = 0 /\ ret.d.steps = 1
  /\ call.guidance_scale = 20 * Scale + 1 /\ ret.d.guidance_scale = 20 * Scale

\* C3: fix_seed resolves -1, None and the empty string to None; every other
\* input resolves to the same non-negative integer or to None, so the
\* result is never a negative integer, and a non-negative integer seed is
\* returned unchanged.
C3_SeedResolved ==
  Returned("fix_seed") =>
    /\ call.seed \in {Num(-1), None, Str(<<>>)} => ret.v = None
    /\ ret.v = None \/ (ret.v.t = "num" /\ ret.v.v >= 0)
    /\ call.seed.t = "num" => ret.v \in {None, call.seed}
    /\ (call.seed.t = "num" /\ call.seed.v >= 0) => ret.v = call.seed
    /\ call.seed.t = "str" =>
         \/ ret.v = None
         \/ ParseInt(call.seed.s).ok /\ ret.v = Num(ParseInt(call.seed.s).v)

C3_Witness ==
  /\ Returned("fix_seed")
  /\ call.seed = Num(-1)
  /\ ret.v = None

HasNonSpace(s) == \E i \in 1..Len(s) : s[i] \notin Whitespace

\* s without its leading and trailing whitespace: the part of s from its
\* first to its last non-whitespace character
Trim(s) ==
  LET keep == {i \in 1..Len(s) : s[i] \notin Whitespace}
  IN  IF keep = {} THEN <<>>
      ELSE SubSeq(s, CHOOSE i \in keep : \A j \in keep : i <= j,
                     CHOOSE i \in keep : \A j \in keep : i >= j)

\* the presets that carry a prefix and a suffix
NamedStyles == (DOMAIN STYLE_PRESETS) \ {Style_None}

Wrapped(p, s) ==
  STYLE_PRESETS[s].prompt_prefix \o p \o STYLE_PRESETS[s].prompt_suffix

\* C5 as stated: applying any named style preset to a non-empty prompt
\* yields exactly prefix + prompt + suffix.
C5_Original ==
  (Returned("apply_style") /\ call.style_name \in NamedStyles
     /\ call.base_prompt # <<>>)
  => ret.s = Wrapped(call.base_prompt, call.style_name)

\* C5 amended: applying any named style preset other than "None" to a
\* prompt that contains at least one non-whitespace character yields exactly
\* prefix + prompt + suffix, no character added, removed or altered.
C5_NamedStyleWraps ==
  (Returned("apply_style") /\ call.style_name \in NamedStyles
     /\ HasNonSpace(call.base_prompt))
  => ret.s = Wrapped(call.base_prompt, call.style_name)

C5_Witness ==
  /\ Returned("apply_style")
  /\ call.style_name = Style_Anime
  /\ call.base_prompt = <<" ", "a", " ">>
  /\ ret.s = Preset_Anime.prompt_prefix \o <<" ", "a", " ">> \o Preset_Anime.prompt_suffix

\* C7 as stated: style "None" applied to any non-empty prompt returns the
\* prompt without its leading and trailing whitespace, and applying it
\* again to the result changes nothing.
C7_Original ==
  /\ (Returned("apply_style") /\ call.style_name = Style_None
        /\ call.base_prompt # <<>>)
     => ret.s = Trim(call.base_prompt)
  /\ (Returned("apply_style_again") /\ call.style_name = Style_None)
     => ret.s = call.base_prompt

\* C7 amended: style "None" applied to any prompt that contains at least one
\* non-whitespace character returns the prompt without its leading and
\* trailing whitespace (a whitespace-only prompt is returned as it is, not
\* trimmed); applying it again to the result changes nothing.
C7_NoneStyleTrims ==
  /\ (Returned("apply_style") /\ call.style_name = Style_None
        /\ HasNonSpace(call.base_prompt))
     => ret.s = Trim(call.base_prompt)
  /\ (Returned("apply_style_again") /\ call.style_name = Style_None)
     => ret.s = call.base_prompt

C7_Witness ==
  /\ Returned("apply_style_again")
  /\ call.style_name = Style_None
  /\ call.base_prompt = <<"a", " ", "b">>
  /\ ret.s = <<"a", " ", "b">>

\* C8: for every style name that is not a key of the preset table,
\* apply_style, get_style_info and get_style_description behave as for the
\* "None" preset (empty prefix and suffix) and return a value, not an error.
C8_UnknownStyleIsNone ==
  /\ (Returned("apply_style") /\ call.style_name \notin DOMAIN STYLE_PRESETS)
     => ret.s = IF HasNonSpace(call.base_prompt) THEN Trim(call.base_prompt)
                ELSE call.base_prompt
  /\ (Returned("get_style_info") /\ call.style_name \notin DOMAIN STYLE_PRESETS)
     => /\ ret.d.prompt_prefix = <<>>
        /\ ret.d.prompt_suffix = <<>>
        /\ ret.d.description = "No style modifications"
  /\ (Returned("get_style_description")
        /\ call.style_name \notin DOMAIN STYLE_PRESETS)
     => ret.s = "No style modifications"

C8_Witness ==
  /\ Returned("apply_style")
  /\ call.style_name = <<"A", "n", "i", "m", "e", " ">>
  /\ call.base_prompt = <<" ", "a">>
  /\ ret.s = <<"a">>

\* C9: apply_style returns an empty or whitespace-only prompt unchanged for
\* every style name: nothing is added and the whitespace is not trimmed.
C9_BlankPromptUnchanged ==
  (Returned("apply_style") /\ ~HasNonSpace(call.base_prompt))
  => ret.s = call.base_prompt

C9_Witness ==
  /\ Returned("apply_style")
  /\ call.style_name = Style_Anime
  /\ call.base_prompt = <<" ", "\t">>
  /\ ret.s = <<" ", "\t">>

----------------------------------------------------------------------------
(* Properties of the request paths, checked under Spec *)

\* the metadata records persisted in the output directory
SidecarNames == {f \in DOMAIN outdir : EndsWith(f, <<".", "j", "s", "o", "n">>)}

\* the data-model invariants on one metadata record
MetadataInRange(m) ==
  /\ m.steps.v >= 1 /\ m.steps.v <= 100
  /\ m.guidance_scale.v >= 1 * Scale /\ m.guidance_scale.v <= 20 * Scale
  /\ "strength" \in DOMAIN m => (m.strength.v >= 0 /\ m.strength.v <= 1 * Scale)
  /\ "width" \in DOMAIN m =>
       (m.width.v % 8 = 0 /\ m.width.v >= 256 /\ m.width.v <= 768)
  /\ "height" \in DOMAIN m =>
       (m.height.v % 8 = 0 /\ m.height.v >= 256 /\ m.height.v <= 768)
  /\ \/ m.seed.t = "num" /\ m.seed.v >= 0
     \/ m.seed = Str(<<"r", "a", "n", "d", "o", "m">>)

\* C4: for every request, in local mode and in API mode alike, the values
\* recorded in the persisted metadata satisfy the data-model invariants:
\* steps within [1,100], guidance within [1.0,20.0], strength (when present)
\* within [0,1], width and height multiples of 8 within bounds, and seed a
\* non-negative integer or "random".
C4_PersistedMetadataInRange ==
  \A f \in SidecarNames : MetadataInRange(outdir[f].content)

\* the prompts handed to the local pipeline or to the remote API by the
\* last request
SentPrompts ==
  IF last.fn = "none" THEN {}
  ELSE {last.remote[i].prompt : i \in 1..Len(last.remote)}
       \cup {last.local[i].prompt : i \in 1..Len(last.local)}

\* C6: on every path that applies a style (the local generation functions
\* and the API path of the UI wrappers) the styled prompt equals
\* trim(prefix + trim(prompt) + suffix): the user prompt is trimmed before
\* it is wrapped.
C6_PromptTrimmedBeforeWrap ==
  \A sp \in SentPrompts :
    HasNonSpace(last.prompt) =>
    sp = Trim(get_style_info(last.style).prompt_prefix
              \o Trim(last.prompt)
              \o get_style_info(last.style).prompt_suffix)

\* C10: an empty or whitespace-only prompt is rejected as a validation
\* error before any call to the local pipeline or the remote API, on every
\* request path, and the rejection is reported to the caller.
C10_BlankPromptRejected ==
  (last.fn # "none" /\ ~HasNonSpace(last.prompt)) =>
    /\ last.remote = <<>>
    /\ last.local = <<>>
    /\ last.image = None
    /\ last.info.status = "error"

\* a step in which transform_wrapper served a request
TransformServed == requests' = requests + 1 /\ last'.fn = "transform_wrapper"

\* C11: an image-to-image request with no input image is rejected at once, in
\* local and in API mode: no pipeline call and no remote call is made, the
\* output directory is left as it was, and an error is reported to the caller.
C11_MissingImageRejected ==
  [][(TransformServed /\ last'.input_image = None) =>
       /\ last'.remote = <<>>
       /\ last'.local = <<>>
       /\ outdir' = outdir
       /\ ~last'.raised
       /\ last'.image = None
       /\ last'.info = ErrorInfo("Please upload an input image")]_vars

\* a request without an image was made with the API toggle on while the API
\* client was configured, and it was turned down
C11_Witness ==
  /\ last.fn = "transform_wrapper"
  /\ last.input_image = None
  /\ last.use_api
  /\ "api_client" \in DOMAIN pipelines
  /\ last.info.status = "error"

\* a credential that is present and well-formed: non-empty, starting "hf_"
WellFormed(token) ==
  /\ Len(token) >= 3
  /\ token[1] = "h"
  /\ token[2] = "f"
  /\ token[3] = "_"

Servable ==
  /\ last.fn \in {"generate_wrapper", "transform_wrapper"}
  /\ HasNonSpace(last.prompt)
  /\ last.fn = "transform_wrapper" => last.input_image # None

\* C13: the mode is decided per request, with a fallback when the chosen
\* target is unconfigured: a request that selects the API while no configured
\* API client exists is served by the local pipeline instead of failing.
C13_FallbackToLocal ==
  (Servable /\ last.use_api /\ "api_client" \notin DOMAIN pipelines) =>
    /\ last.local # <<>>
    /\ last.info # ErrorInfo("'api_client'")

\* the remote call of a client method was made and it failed
RemoteFailed(f) ==
  /\ Returned(f)
  /\ WellFormed(call.token)
  /\ ~call.reply.ok

\* C14: when the remote image-to-image call fails, generate_img2img falls
\* back exactly once to text-to-image on the same client, with the same
\* prompt, steps and guidance, before it reports failure; for every remote
\* failure of the image-to-image call.
C14_Img2ImgFallsBack ==
  RemoteFailed("api_generate_img2img") =>
    /\ Len(ret.calls) = 2
    /\ ret.calls[1].op = "image_to_image"
    /\ ret.calls[2].op = "text_to_image"
    /\ ret.calls[2].model = ret.calls[1].model
    /\ ret.calls[2].prompt = call.prompt
    /\ ret.calls[2].num_inference_steps = call.num_inference_steps
    /\ ret.calls[2].guidance_scale = call.guidance_scale

\* a wrapper has returned from the request drawn
Served == call.fn \in {"generate_wrapper", "transform_wrapper"} /\ ret # NoValue

\* the request asked for the API and the pipelines dict has no client entry
ClientMissing == call.use_api /\ "api_client" \notin DOMAIN pipelines

\* the request asked for the local pipeline, called it, and the entry is None
PipelineMissing ==
  /\ ~call.use_api
  /\ HasNonSpace(call.prompt)
  /\ call.fn = "transform_wrapper" => call.input_image # None
  /\ pipelines[IF call.fn = "generate_wrapper" THEN "text2img" ELSE "img2img"] = None

\* the local pipeline was called and raised
PipelineFailed == ret.local # <<>> /\ ~call.env.pipe.ok

\* the remote client was called and gave no image: its last remote call failed
ClientFailed ==
  \/ Len(ret.remote) = 1 /\ ~call.env.remote.ok
  \/ Len(ret.remote) = 2 /\ ~call.env.fallback.ok

\* an image came back from the pipeline or from the remote client
Obtained ==
  \/ ret.local # <<>> /\ call.env.pipe.ok
  \/ ret.remote # <<>> /\ ~ClientFailed

ImageWriteFailed == Obtained /\ ~call.env.png_ok

SidecarWriteFailed == Obtained /\ call.env.png_ok /\ ~call.env.json_ok

\* the wrapper returned (no image, error message)
ReturnedError ==
  /\ ~ret.raised
  /\ ret.image = None
  /\ ret.info.status \in {"error", "failed"}

\* C15 as stated: for every input and every failure of the local pipeline,
\* the remote client, a missing pipeline or client entry, or persistence, the
\* wrappers return (no image, error message) and never raise.
C15_Original ==
  Served =>
    /\ ~ret.raised
    /\ (\/ ClientMissing
        \/ PipelineMissing
        \/ PipelineFailed
        \/ ClientFailed
        \/ ImageWriteFailed
        \/ SidecarWriteFailed) => ReturnedError

\* C15, amended: the wrappers never raise, and they return (no image, error
\* message) for every failure of the local pipeline, the remote client, a
\* missing pipeline or client entry, or the image write; a failed sidecar
\* write alone is not reported: the image and the success report come back.
C15_FailuresReturnedAsErrors ==
  Served =>
    /\ ~ret.raised
    /\ (\/ ClientMissing
        \/ PipelineMissing
        \/ PipelineFailed
        \/ ClientFailed
        \/ ImageWriteFailed) => ReturnedError
    /\ SidecarWriteFailed =>
         /\ ret.image # None
         /\ ret.info.status \notin {"error", "failed"}

\* the image came back from the remote API and could not be written
C15_Witness ==
  /\ Served
  /\ call.use_api
  /\ ImageWriteFailed
  /\ ReturnedError

\* a method of the remote client has returned or raised
ClientCalled ==
  Returned("api_generate_text2img") \/ Returned("api_generate_img2img")

\* C16: generate_text2img and generate_img2img of the remote client return
\* either an image or None for every error condition: an error is reported
\* as a None result, not as an exception.
C16_ErrorsReturnNone ==
  ClientCalled =>
    /\ ~ret.raised
    /\ ret.value = None \/ ret.value.t = "image"

\* the failure category a remote error message belongs to
FailureCategory(msg) ==
  IF Contains(Lower(msg), <<"l", "o", "a", "d", "i", "n", "g">>) THEN "model still loading"
  ELSE IF Contains(Lower(msg), <<"r", "a", "t", "e", " ", "l", "i", "m", "i", "t">>) THEN "rate-limited"
  ELSE IF Contains(msg, <<"5", "0", "3">>) THEN "transient unavailability"
  ELSE "other"

KnownCategories == {"model still loading", "rate-limited", "transient unavailability"}

\* what the caller of a client method gets: the value returned or the
\* exception raised, nothing of what the method printed
CallerSees(r) == [raised |-> r.raised, result |-> IF r.raised THEN r.msg ELSE r.value]

\* the client method of call c, run on c
ClientResult(c) ==
  IF c.fn = "api_generate_text2img"
  THEN API_generate_text2img(HuggingFaceAPI(API_MODEL_ID, c.token), c.prompt,
                             <<>>, c.num_inference_steps, c.guidance_scale,
                             512, 512, c.seed, c.reply)
  ELSE API_generate_img2img(HuggingFaceAPI(API_MODEL_ID, c.token), c.prompt,
                            c.init_image, c.strength, <<>>,
                            c.num_inference_steps, c.guidance_scale, c.seed,
                            c.reply, c.fallback_reply)

\* C17: the remote client surfaces the known failure categories (model still
\* loading, rate-limited, transient unavailability) to its caller as
\* distinguishable conditions: what a failed generate_text2img or
\* generate_img2img call hands back differs from what the same call hands
\* back when it fails with another known category.
C17_FailureCategoriesDistinguishable ==
  (/\ ClientCalled
   /\ WellFormed(call.token)
   /\ ~call.reply.ok
   /\ FailureCategory(call.reply.msg) \in KnownCategories) =>
    \A m \in ErrorMessages :
      FailureCategory(m) \in KnownCategories \ {FailureCategory(call.reply.msg)} =>
        CallerSees(ClientResult([call EXCEPT !.reply = [ok |-> FALSE, msg |-> m]]))
          # CallerSees(ret)

\* C18: for any two generations whose metadata seeds differ (each a
\* non-negative integer or "random"), generate_filename returns different
\* filenames, whatever their timestamps, styles and generation types.
C18_DistinctSeedsDistinctNames ==
  (Returned("generate_filename") /\ call.m1.seed # call.m2.seed) =>
    ret.a # ret.b

\* two generations of the same second, style and type that differ in the seed
\* only, one seed a prefix of the other
C18_Witness ==
  /\ Returned("generate_filename")
  /\ call.t1 = call.t2
  /\ call.m1.style = Str(<<"a", "_", "1">>)
  /\ call.m2.style = Str(<<"a", "_", "1">>)
  /\ "type" \notin DOMAIN call.m1
  /\ "type" \notin DOMAIN call.m2
  /\ call.m1.seed = Num(1)
  /\ call.m2.seed = Num(10)
  /\ ret.a # ret.b

\* the last request came back with an image, which save_image has written
Saved == last.fn # "none" /\ last.image # None

\* the generation type of the last request
RequestType ==
  IF last.fn = "transform_wrapper" THEN <<"i", "m", "g", "2", "i", "m", "g">> ELSE <<"t", "e", "x", "t", "2", "i", "m", "g">>

\* a file name without its extension: what stands before its last dot
Stem(name) ==
  LET dots == {i \in 1..Len(name) : name[i] = "."}
      last_dot == CHOOSE i \in dots : \A j \in dots : j <= i
  IN  SubSeq(name, 1, last_dot - 1)

\* <timestamp>_<type>_<style>_<seed>.png for the last request, named at second t
LayoutName(t) ==
  Strftime(t) \o <<"_">> \o RequestType \o <<"_">>
    \o Lower(Replace(last.style, <<" ">>, <<"_">>)) \o <<"_">>
    \o PyStr(last.info.metadata.seed) \o <<".", "p", "n", "g">>

\* C19: every saved image is named <timestamp>_<type>_<style>_<seed>.png
\* where <type> is the generation type of the request that produced it
\* (text2img or img2img), in local mode and in API mode, and its sidecar has
\* the identical stem with extension .json.
C19_FileLayout ==
  Saved =>
    /\ \E t \in 0..MaxTime : last.info.filepath = LayoutName(t)
    /\ last.info.filepath \in DOMAIN outdir
    /\ \A f \in SidecarNames :
         outdir[f].content.filename = Str(last.info.filepath) =>
           f = Stem(last.info.filepath) \o <<".", "j", "s", "o", "n">>

\* the fields every metadata record is to carry
RecordFields ==
  {"prompt", "style", "steps", "guidance_scale", "seed", "mode", "saved_at",
   "filename"}

\* the sidecar written for the image the last request returned
LastSidecar == Stem(last.info.filepath) \o <<".", "j", "s", "o", "n">>

\* C20: every persisted metadata record echoes the request and also holds the
\* resolved seed, a mode field equal to "local" or "api" that matches the path
\* which produced the image, a timestamp, and the output filename, for
\* local-mode and for API-mode generations.
C20_MetadataRecord ==
  /\ \A f \in SidecarNames :
       LET m == outdir[f].content
       IN  /\ RecordFields \subseteq DOMAIN m
           /\ m.mode \in {Str(<<"l", "o", "c", "a", "l">>), Str(<<"a", "p", "i">>)}
           /\ m.saved_at.t = "time"
           /\ m.filename = Str(Stem(f) \o <<".", "p", "n", "g">>)
  /\ (Saved /\ LastSidecar \in DOMAIN outdir) =>
       LET m == outdir[LastSidecar].content
       IN  /\ m.prompt = Str(last.prompt)
           /\ m.style = Str(last.style)
           /\ m.mode = IF last.use_api THEN Str(<<"a", "p", "i">>) ELSE Str(<<"l", "o", "c", "a", "l">>)

\* C26: when a strength is supplied, clamp_parameters returns it clamped into
\* [0.0, 1.0] (below 0 becomes 0, above 1 becomes 1, in range unchanged); when
\* strength is absent the result has no strength field.
C26_StrengthClamped ==
  Returned("clamp_parameters") =>
    IF call.strength = None
    THEN "strength" \notin DOMAIN ret.d
    ELSE /\ "strength" \in DOMAIN ret.d
         /\ call.strength.v < 0 => ret.d.strength = 0
         /\ call.strength.v > 1 * Scale => ret.d.strength = 1 * Scale
         /\ (0 <= call.strength.v /\ call.strength.v <= 1 * Scale)
              => ret.d.strength = call.strength.v

\* a strength of exactly 0.0 is supplied and comes back as 0.0
C26_Witness ==
  /\ Returned("clamp_parameters")
  /\ call.strength = Float(0)
  /\ "strength" \in DOMAIN ret.d
  /\ ret.d.strength = 0

\* the operations of the remote calls a client method made, in order
RemoteOps == [i \in 1..Len(ret.calls) |-> ret.calls[i].op]

\* C27: upstream failures are not retried: a text-to-image request makes at
\* most one remote call, an image-to-image request at most two (one
\* image-to-image call, then at most one text-to-image fallback), whatever
\* failures the remote returns.
C27_NoAutomaticRetry ==
  /\ Returned("api_generate_text2img") =>
       RemoteOps \in {<<>>, <<"text_to_image">>}
  /\ Returned("api_generate_img2img") =>
       RemoteOps \in {<<>>, <<"image_to_image">>,
                      <<"image_to_image", "text_to_image">>}

\* the image-to-image call failed as unsupported and the fallback failed too:
\* two remote calls, no third
C27_Witness ==
  /\ Returned("api_generate_img2img")
  /\ ~call.reply.ok
  /\ ~call.fallback_reply.ok
  /\ RemoteOps = <<"image_to_image", "text_to_image">>
  /\ ret.value = None

\* the two states the pipelines record may be in when create_app is called
ApiState(p) ==
  /\ p.mode = "api"
  /\ "api_client" \in DOMAIN p
  /\ WellFormed(p.api_client.token)

LocalState(p) ==
  /\ p.mode = "local"
  /\ p.text2img # None
  /\ p.img2img # None

\* C29: whenever main reaches UI creation, the pipelines record is in one of
\* two states: mode "api" with an api_client whose token is well-formed, or
\* mode "local" with both local pipelines loaded. If API mode is selected
\* with a missing or malformed token, main falls back to loading the local
\* pipelines; if that loading fails the process exits with status 1 and the
\* UI is never created.
C29_BootStates ==
  Returned("main") =>
    /\ ret.ui # "not reached" =>
         (ret.pipelines # <<>>
            /\ (ApiState(ret.pipelines) \/ LocalState(ret.pipelines)))
    /\ (call.GENERATION_MODE = "api" /\ ~WellFormed(call.HF_TOKEN)) =>
         IF call.load_ok
         THEN ret.ui # "not reached" /\ LocalState(ret.pipelines)
         ELSE /\ ret.ui = "not reached"
              /\ ret.pc = "exited"
              /\ ret.exit_status = Num(1)

\* API mode was selected with a malformed token and the local pipelines
\* were loaded instead
C29_Witness ==
  /\ Returned("main")
  /\ call.GENERATION_MODE = "api"
  /\ call.HF_TOKEN = <<"x">>
  /\ ret.pc = "serving"
  /\ LocalState(ret.pipelines)

\* C28: a request that fails (validation error, remote call returning None,
\* or any exception from the pipeline or the client) leaves the output
\* directory unchanged: save_image is called only after an image has been
\* obtained, so no image and no sidecar is written for a failed request.
C28_FailedRequestWritesNothing ==
  [][(ret = NoValue /\ Served' /\ ~Obtained') =>
       (outdir' = outdir /\ ReturnedError')]_vars

\* the remote call of a request failed while the directory held earlier
\* output, which is still all there is
C28_Witness ==
  /\ Served
  /\ call.use_api
  /\ ClientFailed
  /\ outdir \in EarlierOutputs \ {<<>>}

----------------------------------------------------------------------------
(* Claims about the history functions, checked under SpecHist *)

\* the step is a call of the history function fn
HistCall(fn) == requests' = requests + 1 /\ call'.fn = fn

\* the files clear_history looks for
Clearable(dir) ==
  IF dir = NoDir THEN {}
  ELSE {f \in DOMAIN dir : EndsWith(f, <<".", "p", "n", "g">>) \/ EndsWith(f, <<".", "j", "s", "o", "n">>)}

\* the sidecar name of an image name
SidecarOf(f) == Stem(f) \o <<".", "j", "s", "o", "n">>

\* file f is the same in directories d1 and d2: absent in both, or present
\* in both with the same content and modification time
SameFile(d1, d2, f) ==
  IF f \in DOMAIN d1 THEN f \in DOMAIN d2 /\ d2[f] = d1[f]
  ELSE f \notin DOMAIN d2

\* C25: save_image writes the image first and the sidecar second. When the
\* sidecar write fails, save_image still returns the image path, the image is
\* on disk and the sidecar file is as it was; when the image write fails, the
\* exception reaches the caller and nothing is written, the sidecar included.
C25_SaveImageFailures ==
  [][HistCall("save_image") =>
       LET before == makedirs(outdir)
           path == Str(generate_filename(call'.metadata, call'.t))
           name == generate_filename(call'.metadata, call'.t)
       IN  /\ ~call'.png_ok =>
                ret'.raised /\ outdir' = before
           /\ call'.png_ok =>
                /\ ~ret'.raised /\ ret'.value = path
                /\ name \in DOMAIN outdir'
                /\ outdir'[name].content = call'.image
           /\ (call'.png_ok /\ ~call'.json_ok) =>
                SameFile(before, outdir', SidecarOf(name))
           /\ (call'.png_ok /\ call'.json_ok) =>
                /\ SidecarOf(name) \in DOMAIN outdir'
                /\ outdir'[SidecarOf(name)].content.prompt = call'.metadata.prompt]_vars

C25_Witness ==
  /\ call.fn = "save_image" /\ call.png_ok /\ ~call.json_ok
  /\ ~ret.raised
  /\ ret.value.s \in DOMAIN outdir
  /\ SidecarOf(ret.value.s) \notin DOMAIN outdir

\* C22: clear_history(confirm=False) returns 0 and leaves the output
\* directory as it was, whatever it holds.
C22_UnconfirmedClearDeletesNothing ==
  [][(HistCall("clear_history") /\ ~call'.confirm) =>
       (ret'.value = 0 /\ outdir' = outdir)]_vars

C22_Witness ==
  /\ call.fn = "clear_history" /\ ~call.confirm
  /\ ret.value = 0
  /\ Clearable(outdir) # {}

\* C23: clear_history(confirm=True) removes exactly the .png and .json files
\* whose removal does not fail, leaves every other file as it was, and
\* returns the number of files removed; when no removal failed,
\* get_image_count is 0 afterwards.
C23_ConfirmedClear ==
  [][(HistCall("clear_history") /\ call'.confirm) =>
       IF outdir = NoDir THEN ret'.value = 0 /\ outdir' = NoDir
       ELSE LET gone == (DOMAIN outdir) \ (DOMAIN outdir')
            IN  /\ gone = Clearable(outdir) \ call'.failing
                /\ DOMAIN outdir' \subseteq DOMAIN outdir
                /\ \A f \in DOMAIN outdir' : outdir'[f] = outdir[f]
                /\ ret'.value = Cardinality(gone)
                /\ (call'.failing \cap Clearable(outdir) = {}) =>
                     get_image_count(outdir') = 0]_vars

\* an image was kept because its removal failed, its sidecar was removed, and
\* the file of the user is still there
C23_Witness ==
  /\ call.fn = "clear_history" /\ call.confirm
  /\ ret.value = 1
  /\ outdir # NoDir
  /\ OtherFile \in DOMAIN outdir
  /\ \E f \in call.failing : f \in PngFiles(outdir)

\* the modification time of an image of the output directory
Mtime(f) == outdir[f].mtime

\* C24: list_recent_images returns .png files of the output directory only,
\* each once, newest first, min(limit, number of images) of them for a limit
\* >= 0, and no image left out is newer than a returned one; a missing
\* directory gives the empty list.
C24_RecentImages ==
  (call.fn = "list_recent_images" /\ ret # NoValue) =>
    LET paths == ret.value
        n == Len(paths)
    IN  IF outdir = NoDir THEN paths = <<>>
        ELSE /\ \A i \in 1..n : paths[i] \in PngFiles(outdir)
             /\ \A i, j \in 1..n : i # j => paths[i] # paths[j]
             /\ call.limit >= 0 =>
                  n = PyMin(call.limit, Cardinality(PngFiles(outdir)))
             /\ \A i, j \in 1..n : i < j => Mtime(paths[i]) >= Mtime(paths[j])
             /\ \A f \in PngFiles(outdir) :
                  (\A i \in 1..n : paths[i] # f) =>
                     \A i \in 1..n : Mtime(f) <= Mtime(paths[i])

\* two images of different age and a limit of one: the newer one is returned
C24_Witness ==
  /\ call.fn = "list_recent_images" /\ call.limit = 1
  /\ outdir # NoDir
  /\ Cardinality(PngFiles(outdir)) = 2
  /\ \E f, g \in PngFiles(outdir) : Mtime(f) < Mtime(g) /\ ret.value = <<g>>

\* this save_image call follows a successful one of the same second with the
\* same seed, style and type
SecondOfAPair ==
  /\ HistCall("save_image")
  /\ call.fn = "save_image" /\ ~ret.raised
  /\ call'.t = call.t
  /\ call'.metadata.seed = call.metadata.seed
  /\ call'.metadata.style = call.metadata.style
  /\ call'.metadata.type = call.metadata.type
  /\ call'.png_ok

WrittenBy(f) == CHOOSE g \in HistGenerations : g.image = outdir[f].content

\* C30: whenever an image and its sidecar are both in the output directory,
\* load_metadata gives the record of the save that last wrote the image: its
\* filename field names the image and its parameters are those of that
\* generation.
C30_SidecarMatchesImage ==
  outdir # NoDir =>
    \A f \in PngFiles(outdir) :
      SidecarOf(f) \in DOMAIN outdir =>
        LET record == load_metadata(outdir, f, TRUE)
        IN  /\ record.filename = Str(f)
            /\ \A k \in DOMAIN WrittenBy(f).metadata :
                 record[k] = WrittenBy(f).metadata[k]

====
